---- MODULE Spec2Model ----
(***************************************************************************)
(* Model of the SPICE server WebSocket framer (src/server/websocket.c) and *)
(* of the RedClient migration accounting (src/server/red-channel.c).       *)
(*                                                                         *)
(* Bytes are integers 0..255.  A uint64_t is a sequence of 8 bytes, most   *)
(* significant first, because the lengths of interest (2^32, 2^40) do not  *)
(* fit the integers of the model checker; uint64_t values known to be      *)
(* small are converted to integers with U64ToNat.                          *)
(***************************************************************************)
EXTENDS Integers, Sequences, FiniteSets, TLC

VARIABLES
    ws,       \* struct RedsWebSocket (websocket.c:81-94)
    io,       \* the raw stream under the framer and what the caller has got
    last,     \* the last API call: operation, return value, errno, raw I/O seen
    rt,       \* header round trip: fill_header then extract_length
    hs,       \* websocket_new: the handshake buffer and the result
    client    \* struct RedClient and its accounting (red-channel.c)

vars == <<ws, io, last, rt, hs, client>>

(***************************************************************************)
(* Bounds of the model.                                                    *)
(***************************************************************************)
\* a raw read/write/writev transfers k of the n bytes offered with
\* k <= MaxShort or k >= n - 1
MaxShort == 2
\* at most this many frames are sent by the peer, one at a time
MaxInFrames == 1
\* at most this many frames are sent by a peer that sends them back to back
MaxBurst == 2
\* write calls are made while the raw output holds fewer than this many
\* items (a header byte, or a run of body bytes)
MaxOut == 3
\* the same for the connection that only writes
MaxLongOut == 6
\* items on the wire before a write call, in the runs that mix long frames
\* with the close handshake
MaxAckOut == 3
\* at most this many channel-clients are ever added to the client
MaxChannels == 3
\* num_migrated_channels is explored down to -MaxNeg
MaxNeg == 2
\* calls of red_client_set_migration_seamless on one client
MaxSets == 2
MaxErrors == 2
MaxThreads == 2
MaxRccs == 2
MaxItems == 2
MaxRefs == 2
MaxTaken == 4
\* the monotonic time runs from 0 to MaxTime
MaxTime == 2
\* capabilities are set in the words 0 .. MaxCapWord of a vector
MaxCapWord == 2
\* migration_flags range over 0 .. MaxFlags
MaxFlags == 3

(***************************************************************************)
(* Constants of websocket.c:48-68                                          *)
(***************************************************************************)
FIN_FLAG == 128
RSV_MASK == 112
TYPE_MASK == 15
CONTROL_FRAME_MASK == 8
CONTINUATION_FRAME == 0
TEXT_FRAME == 1
BINARY_FRAME == 2
CLOSE_FRAME == 8
PING_FRAME == 9
PONG_FRAME == 10
LENGTH_MASK == 127
LENGTH_16BIT == 126
LENGTH_64BIT == 127
MASK_FLAG == 128
WEBSOCKET_MAX_HEADER_SIZE == 14

\* errno values and the error return
EAGAIN == "EAGAIN"
EINTR == "EINTR"
EPIPE == "EPIPE"
EIO == "EIO"

(***************************************************************************)
(* Bit operations on bytes and on uint64_t.                                *)
(***************************************************************************)
Byte == 0..255

RECURSIVE BitAnd(_, _)
BitAnd(a, b) ==
    IF a = 0 \/ b = 0 THEN 0
    ELSE (IF a % 2 = 1 /\ b % 2 = 1 THEN 1 ELSE 0) + 2 * BitAnd(a \div 2, b \div 2)

RECURSIVE BitOr(_, _)
BitOr(a, b) ==
    IF a = 0 THEN b
    ELSE IF b = 0 THEN a
    ELSE (IF a % 2 = 1 \/ b % 2 = 1 THEN 1 ELSE 0) + 2 * BitOr(a \div 2, b \div 2)

RECURSIVE BitXor(_, _)
BitXor(a, b) ==
    IF a = 0 THEN b
    ELSE IF b = 0 THEN a
    ELSE (IF a % 2 # b % 2 THEN 1 ELSE 0) + 2 * BitXor(a \div 2, b \div 2)

Min(a, b) == IF a < b THEN a ELSE b

RECURSIVE Pow2(_)
Pow2(n) == IF n = 0 THEN 1 ELSE 2 * Pow2(n - 1)

\* uint64_t: 8 bytes, most significant first
U64Zero == <<0, 0, 0, 0, 0, 0, 0, 0>>

NatToU64(n) == [k \in 1..8 |-> IF k <= 4 THEN 0 ELSE (n \div Pow2(8 * (8 - k))) % 256]

U64Small(u) == u[1] = 0 /\ u[2] = 0 /\ u[3] = 0 /\ u[4] = 0 /\ u[5] = 0

\* the integer value of u; the model keeps every length it computes with
\* below 2^24, and the value of anything larger is left undefined
U64ToNat(u) ==
    IF U64Small(u) THEN u[6] * 65536 + u[7] * 256 + u[8]
    ELSE CHOOSE n \in {} : TRUE

U64Or(u, v) == [k \in 1..8 |-> BitOr(u[k], v[k])]

\* u > 65535
U64Gt65535(u) == \E k \in 1..6 : u[k] # 0

\* u >> 8
U64Shr8(u) == [k \in 1..8 |-> IF k = 1 THEN 0 ELSE u[k - 1]]

(***************************************************************************)
(* extract_length, websocket.c:117-142.  buf is the byte sequence the      *)
(* pointer designates, used the in/out counter.                            *)
(***************************************************************************)
\* (uint64_t) (b << i) for a byte b promoted to a 32-bit int and i in
\* {0, 8, ..., 56}, websocket.c:129: the values a build can produce.  For
\* i >= 32 the shift is undefined: the machine either takes the count modulo
\* 32 or yields 0.  A result with bit 31 set is a negative int and is
\* sign-extended by the conversion to uint64_t.
ShlInt(b, i) ==
    LET p == (i % 32) \div 8
        wrapped == [k \in 1..8 |->
                      IF k = 8 - p THEN b
                      ELSE IF k <= 4 /\ p = 3 /\ b >= 128 THEN 255
                      ELSE 0]
    IN  IF i >= 32 THEN {wrapped, U64Zero} ELSE {wrapped}

\* the loop of websocket.c:128-130 from shift count i down to 0, from any
\* of the values outlens
RECURSIVE extract_length_loop(_, _, _)
extract_length_loop(buf, i, outlens) ==
    IF i < 0 THEN outlens
    ELSE UNION {extract_length_loop(rest, i - 8, os) :
                   rest \in {Tail(buf)},
                   os \in {{U64Or(o, x) : o \in outlens, x \in ShlInt(Head(buf), i)}}}

\* every [outlen, used] the call can produce: one, but for the undefined shifts
extract_length(buf, used) ==
    LET outlen == BitAnd(Head(buf), LENGTH_MASK)
        rest == Tail(buf)
    IN  CASE outlen = LENGTH_64BIT ->
                {[outlen |-> o, used |-> used + 1 + 8] :
                    o \in extract_length_loop(rest, 56, {U64Zero})}
          [] outlen = LENGTH_16BIT ->
                {[outlen |-> NatToU64(BitOr(rest[1] * 256, rest[2])), used |-> used + 1 + 2]}
          [] OTHER ->
                {[outlen |-> NatToU64(outlen), used |-> used + 1]}

(***************************************************************************)
(* fill_header, websocket.c:349-376.  header is the 14-byte buffer written *)
(* into, len a uint64_t.                                                   *)
(***************************************************************************)
\* the loop of websocket.c:361-364 from index i (0-based) down to 2
RECURSIVE fill_header_loop(_, _, _)
fill_header_loop(header, i, len) ==
    IF i < 2 THEN header
    ELSE CHOOSE r \in {fill_header_loop(h, i - 1, l) :
                          h \in {[header EXCEPT ![i + 1] = len[8]]},
                          l \in {U64Shr8(len)}} : TRUE

fill_header(header, len) ==
    LET h0 == [header EXCEPT ![1] = BitOr(FIN_FLAG, BINARY_FRAME), ![2] = 0]
    IN  IF U64Gt65535(len)
        THEN [header |-> fill_header_loop([h0 EXCEPT ![2] = LENGTH_64BIT], 9, len),
              used |-> 2 + 8]
        ELSE IF U64ToNat(len) >= LENGTH_16BIT
        THEN [header |-> [h0 EXCEPT ![2] = LENGTH_16BIT, ![3] = len[7], ![4] = len[8]],
              used |-> 2 + 2]
        ELSE [header |-> [h0 EXCEPT ![2] = BitOr(0, len[8])], used |-> 2]

(***************************************************************************)
(* The raw stream: the callbacks of websocket.h:18-20.                     *)
(*                                                                         *)
(* A working state s is [ws, io, errno, kind, closedAfter, aborted]: the   *)
(* handle, the raw stream, errno, how the latest raw transfer of the       *)
(* running call went ("again", "short", "full", "zero"; "none" before the  *)
(* first), the kind of the transfer after which the call set ws->closed    *)
(* ("no" if it did not) and whether a spice_assert failed.  Every function *)
(* that does raw I/O is a set of outcomes [s, rc].                         *)
(*   io.rawIn      bytes the peer has sent that no raw read has taken      *)
(*   io.eof        the peer has shut its side down                         *)
(*   io.out        what the raw writes emitted: header bytes               *)
(*                 [t |-> "h", v |-> byte] and runs of caller data         *)
(*                 [t |-> "b", v |-> count]                                *)
(*   io.delivered  the bytes put into the buffers of websocket_read        *)
(*   io.sent       the frames the peer has sent, in order                  *)
(*   io.closeSeen  websocket_read has met a CLOSE frame                    *)
(***************************************************************************)
\* the counts k a raw transfer of up to m bytes may report
Transfers(m) == {k \in 1..m : k <= MaxShort \/ k >= m - 1}

\* kind is how the latest raw transfer of the running call went
Note(s, kind) == [s EXCEPT !.kind = kind]

\* ws->closed = true, remembering the latest raw transfer before it
SetClosed(s) == [s EXCEPT !.ws.closed = TRUE, !.closedAfter = s.kind]

Kind(k, n) == IF k < n THEN "short" ELSE "full"

\* fails with EAGAIN or EINTR
raw_fail(s) ==
    {[s |-> [Note(s, "again") EXCEPT !.errno = e], rc |-> -1, data |-> <<>>] : e \in {EAGAIN, EINTR}}

\* ssize_t read_cb(opaque, buf, nbyte)
raw_read(s, n) ==
    LET m == Min(n, Len(s.io.rawIn))
    IN  raw_fail(s)
        \cup {[s |-> [Note(s, Kind(k, n)) EXCEPT !.io.rawIn = SubSeq(@, k + 1, Len(@))],
                rc |-> k, data |-> SubSeq(s.io.rawIn, 1, k)] : k \in Transfers(m)}
        \cup (IF n = 0 \/ (s.io.eof /\ s.io.rawIn = <<>>)
               THEN {[s |-> Note(s, "zero"), rc |-> 0, data |-> <<>>]}
               ELSE {})

\* appends header bytes to the raw output
Emit(out, bytes) == out \o [i \in 1..Len(bytes) |-> [t |-> "h", v |-> bytes[i]]]

\* appends k bytes of caller data to the raw output
EmitBody(out, k) ==
    IF k = 0 THEN out
    ELSE IF out # <<>> /\ out[Len(out)].t = "b"
    THEN [out EXCEPT ![Len(out)].v = @ + k]
    ELSE Append(out, [t |-> "b", v |-> k])

\* ssize_t writev_cb(opaque, iov, iovcnt) of header bytes hdr followed by
\* body bytes of caller data; write_cb is the case of one of them alone
raw_writev(s, hdr, body) ==
    LET n == Len(hdr) + body
    IN  {[s |-> o.s, rc |-> o.rc] : o \in raw_fail(s)}
        \cup {[s |-> Note(s, "zero"), rc |-> 0]}
        \cup {[s |-> [Note(s, Kind(k, n)) EXCEPT
                         !.io.out = EmitBody(Emit(@, SubSeq(hdr, 1, Min(k, Len(hdr)))),
                                             k - Min(k, Len(hdr)))],
                rc |-> k] : k \in Transfers(n)}

raw_write(s, hdr, body) == raw_writev(s, hdr, body)

(***************************************************************************)
(* Inbound: websocket.c:144-347                                            *)
(***************************************************************************)
ZeroHeader == [i \in 1..WEBSOCKET_MAX_HEADER_SIZE |-> 0]

\* websocket_clear_frame: memset(frame, 0, sizeof(*frame))
websocket_clear_frame ==
    [type |-> 0, header |-> ZeroHeader, header_pos |-> 0, frame_ready |-> FALSE,
     masked |-> FALSE, mask |-> <<0, 0, 0, 0>>, relayed |-> 0, expected_len |-> 0]

frame_bytes_needed(frame) ==
    IF frame.header_pos < 2 THEN 2 - frame.header_pos
    ELSE LET l == BitAnd(frame.header[2], LENGTH_MASK)
             ext == IF l = LENGTH_64BIT THEN 8 ELSE IF l = LENGTH_16BIT THEN 2 ELSE 0
             msk == IF BitAnd(frame.header[2], MASK_FLAG) # 0 THEN 4 ELSE 0
         IN  2 + ext + msk - frame.header_pos

\* every [ok, frame] the call can produce: the return value and the frame
\* as the call leaves it
websocket_get_frame_header(frame) ==
    IF frame_bytes_needed(frame) > 0 THEN {[ok |-> TRUE, frame |-> frame]}
    ELSE
    LET fin == BitAnd(frame.header[1], FIN_FLAG)
        type == BitAnd(frame.header[1], TYPE_MASK)
        f1 == [frame EXCEPT !.type = type]
        type2 == IF fin = 0 /\ type = CONTINUATION_FRAME THEN BINARY_FRAME ELSE type
        masked == BitAnd(frame.header[2], MASK_FLAG) # 0
        Rest(el) ==
            LET f2 == [f1 EXCEPT !.type = type2,
                                 !.masked = masked,
                                 !.expected_len = U64ToNat(el.outlen),
                                 !.mask = IF masked
                                          THEN SubSeq(frame.header, el.used + 1, el.used + 4)
                                          ELSE @]
            IN  IF BitAnd(type2, CONTROL_FRAME_MASK) # 0 /\ f2.expected_len >= LENGTH_16BIT
                THEN [ok |-> FALSE, frame |-> f2]
                ELSE [ok |-> TRUE, frame |-> [f2 EXCEPT !.relayed = 0, !.frame_ready = TRUE]]
    IN  IF BitAnd(frame.header[1], RSV_MASK) # 0 THEN {[ok |-> FALSE, frame |-> f1]}
        ELSE IF fin = 0 /\ BitAnd(type, CONTROL_FRAME_MASK) # 0 THEN {[ok |-> FALSE, frame |-> f1]}
        ELSE IF BitAnd(type, 255 - CONTROL_FRAME_MASK) >= 3 THEN {[ok |-> FALSE, frame |-> f1]}
        ELSE {Rest(el) :
                 el \in extract_length(SubSeq(frame.header, 2, WEBSOCKET_MAX_HEADER_SIZE), 1)}

\* faulty variant: the mask index restarts at 0 with every call
relay_data_restart(buf, size, frame) ==
    LET n == Min(size, frame.expected_len - frame.relayed)
    IN  IF frame.masked
        THEN [n |-> n,
              buf |-> [i \in 1..Len(buf) |->
                         IF i <= n THEN BitXor(buf[i], frame.mask[((i - 1) % 4) + 1])
                         ELSE buf[i]],
              frame |-> [frame EXCEPT !.relayed = @ + n]]
        ELSE [n |-> n, buf |-> buf, frame |-> frame]

\* relay_data over the size bytes just read into buf: [n, buf, frame]
relay_data(buf, size, frame) ==
    LET n == Min(size, frame.expected_len - frame.relayed)
    IN  IF frame.masked
        THEN [n |-> n,
              buf |-> [i \in 1..Len(buf) |->
                         IF i <= n THEN BitXor(buf[i], frame.mask[((frame.relayed + i - 1) % 4) + 1])
                         ELSE buf[i]],
              frame |-> [frame EXCEPT !.relayed = @ + n]]
        ELSE [n |-> n, buf |-> buf, frame |-> frame]

(***************************************************************************)
(* Outbound: websocket.c:378-575                                           *)
(***************************************************************************)
RECURSIVE SumSeq(_)
SumSeq(q) == IF q = <<>> THEN 0 ELSE Head(q) + SumSeq(Tail(q))

\* constrain_iov over the iov_len of the elements: the iov_len of *iov_out
RECURSIVE constrain_iov_loop(_, _, _)
constrain_iov_loop(iov, i, maxlen) ==
    IF i < Len(iov) /\ maxlen > 0
    THEN IF iov[i + 1] > maxlen
         THEN [SubSeq(iov, 1, i + 1) EXCEPT ![i + 1] = maxlen]
         ELSE constrain_iov_loop(iov, i + 1, maxlen - iov[i + 1])
    ELSE SubSeq(iov, 1, i)

constrain_iov(iov, maxlen) == constrain_iov_loop(iov, 0, maxlen)

\* faulty variant: a header sent in part is not remembered
send_data_header_left_unmoved(s) ==
    LET w == s.ws
        Done(o) ==
            LET pos == w.write_header_pos + o.rc
            IN  IF pos >= w.write_header_len
                THEN {[s |-> [o.s EXCEPT !.ws.write_header_pos = pos,
                                         !.ws.write_remainder = U64ToNat(el.outlen)],
                       rc |-> w.write_header_len] :
                         el \in extract_length(Tail(w.write_header), 1)}
                ELSE {[s |-> [o.s EXCEPT !.errno = EAGAIN], rc |-> -1]}
    IN  UNION {IF o.rc <= 0 THEN {o} ELSE Done(o) :
                  o \in raw_write(s, SubSeq(w.write_header, w.write_header_pos + 1,
                                             w.write_header_len), 0)}

send_data_header_left(s) ==
    LET w == s.ws
        Done(o) ==
            LET pos == w.write_header_pos + o.rc
            IN  IF pos >= w.write_header_len
                THEN {[s |-> [o.s EXCEPT !.ws.write_header_pos = pos,
                                         !.ws.write_remainder = U64ToNat(el.outlen)],
                       rc |-> w.write_header_len] :
                         el \in extract_length(Tail(w.write_header), 1)}
                ELSE {[s |-> [o.s EXCEPT !.ws.write_header_pos = pos, !.errno = EAGAIN],
                       rc |-> -1]}
    IN  UNION {IF o.rc <= 0 THEN {o} ELSE Done(o) :
                  o \in raw_write(s, SubSeq(w.write_header, w.write_header_pos + 1,
                                             w.write_header_len), 0)}

\* the two spice_assert of send_data_header
send_data_header_asserts(w) ==
    w.write_header_pos >= w.write_header_len /\ w.write_remainder = 0

send_data_header(s, len) ==
    LET fh == fill_header(s.ws.write_header, NatToU64(len))
    IN  IF ~send_data_header_asserts(s.ws)
        THEN {[s |-> [s EXCEPT !.aborted = TRUE], rc |-> -1]}
        ELSE UNION {send_data_header_left(t) :
                       t \in {[s EXCEPT !.ws.write_header_pos = 0,
                                        !.ws.write_header = fh.header,
                                        !.ws.write_header_len = fh.used]}}

\* faulty variant: closes as soon as the raw write took anything
websocket_ack_close_early(s) ==
    {[s |-> IF o.rc >= 1
            THEN [SetClosed(o.s) EXCEPT !.ws.close_pending = FALSE]
            ELSE o.s,
      rc |-> o.rc] : o \in raw_write(s, <<BitOr(FIN_FLAG, CLOSE_FRAME), 0>>, 0)}

websocket_ack_close(s) ==
    {[s |-> IF o.rc = 2
            THEN [SetClosed(o.s) EXCEPT !.ws.close_pending = FALSE]
            ELSE o.s,
      rc |-> o.rc] : o \in raw_write(s, <<BitOr(FIN_FLAG, CLOSE_FRAME), 0>>, 0)}

send_pending_data(s) ==
    IF s.ws.write_remainder # 0 THEN {[s |-> s, rc |-> 1]}
    ELSE IF s.ws.write_header_pos < s.ws.write_header_len
    THEN {[s |-> o.s, rc |-> IF o.rc <= 0 THEN o.rc ELSE 1] : o \in send_data_header_left(s)}
    ELSE IF s.ws.close_pending
    THEN {[s |-> o.s, rc |-> IF o.rc <= 0 THEN o.rc ELSE 1] : o \in websocket_ack_close(s)}
    ELSE {[s |-> s, rc |-> 1]}

\* websocket.c:515-519: the raw writev took rc bytes, fewer than the header
writev_header_short(s, used, rc) ==
    [s |-> [s EXCEPT !.ws.write_header_pos = used - rc, !.errno = EAGAIN], rc |-> -1]

\* faulty variant: websocket.c:520 forgotten: the header position is left at 0
writev_header_sent_stale(s, used, len, rc) ==
    [s |-> [s EXCEPT !.ws.write_remainder = len - (rc - used)], rc |-> rc - used]

\* websocket.c:520-528: the raw writev took rc bytes, the header and more
writev_header_sent(s, used, len, rc) ==
    [s |-> [s EXCEPT !.ws.write_header_pos = used,
                     !.ws.write_remainder = len - (rc - used)],
     rc |-> rc - used]

\* the part of websocket_writev after send_pending_data succeeded
websocket_writev_body(s, iov) ==
    IF s.ws.write_remainder > 0
    THEN {IF o.rc <= 0 THEN o
          ELSE [s |-> [o.s EXCEPT !.ws.write_remainder = @ - o.rc], rc |-> o.rc] :
             o \in raw_writev(s, <<>>, SumSeq(constrain_iov(iov, s.ws.write_remainder)))}
    ELSE
    LET len == SumSeq(iov)
        fh == fill_header(s.ws.write_header, NatToU64(len))
        After(o) ==
            IF o.rc <= 0
            THEN [s |-> [o.s EXCEPT !.ws.write_header_len = 0], rc |-> o.rc]
            ELSE IF o.rc < fh.used
            THEN writev_header_short(o.s, fh.used, o.rc)
            ELSE writev_header_sent(o.s, fh.used, len, o.rc)
    IN  UNION {{After(o) : o \in raw_writev(s1, SubSeq(fh.header, 1, fh.used), len)} :
                  s1 \in {[s EXCEPT !.ws.write_header_pos = 0,
                                    !.ws.write_header = fh.header,
                                    !.ws.write_header_len = fh.used]}}

websocket_writev(s, iov) ==
    IF s.ws.closed THEN {[s |-> [s EXCEPT !.errno = EPIPE], rc |-> -1]}
    ELSE UNION {IF p.rc <= 0 THEN {p} ELSE websocket_writev_body(p.s, iov) :
                   p \in send_pending_data(s)}

\* the part of websocket_write after send_pending_data succeeded
websocket_write_body(s, len) ==
    LET Data(t, n) ==
            {[s |-> IF o.rc > 0 THEN [o.s EXCEPT !.ws.write_remainder = @ - o.rc] ELSE o.s,
              rc |-> o.rc] : o \in raw_write(t, <<>>, n)}
    IN  IF s.ws.write_remainder = 0
        THEN UNION {IF h.rc <= 0 THEN {h} ELSE Data(h.s, h.s.ws.write_remainder) :
                       h \in send_data_header(s, len)}
        ELSE Data(s, Min(s.ws.write_remainder, len))

\* faulty variant: the closed test of websocket.c:535-538 left out
websocket_write_unchecked(s, len) ==
    UNION {IF p.rc <= 0 THEN {p} ELSE websocket_write_body(p.s, len) :
              p \in send_pending_data(s)}

websocket_write(s, len) ==
    IF s.ws.closed THEN {[s |-> [s EXCEPT !.errno = EPIPE], rc |-> -1]}
    ELSE UNION {IF p.rc <= 0 THEN {p} ELSE websocket_write_body(p.s, len) :
                   p \in send_pending_data(s)}

(***************************************************************************)
(* websocket_read, websocket.c:281-347                                     *)
(***************************************************************************)
\* A call in progress is [s, size, n, rc, done]: the working state, the
\* room left in the caller's buffer, the bytes delivered and, once done, the
\* return value.
Returned(s, rc) == [s |-> s, size |-> 0, n |-> 0, rc |-> rc, done |-> TRUE]

Looping(s, size, n) == [s |-> s, size |-> size, n |-> n, rc |-> 0, done |-> FALSE]

\* faulty variant: any raw result that is not a count closes the connection
read_error_closing(s, n, rc) ==
    IF n > 0 /\ rc = -1 /\ s.errno \in {EINTR, EAGAIN} THEN Returned(s, n)
    ELSE IF rc <= 0 THEN Returned(SetClosed(s), rc)
    ELSE Returned(s, rc)

\* the read_error label, reached with n bytes delivered and the raw result rc
read_error(s, n, rc) ==
    IF n > 0 /\ rc = -1 /\ s.errno \in {EINTR, EAGAIN} THEN Returned(s, n)
    ELSE IF rc = 0 THEN Returned(SetClosed(s), rc)
    ELSE Returned(s, rc)

\* one pass of `while (size > 0)` from the call in progress c
websocket_read_pass(c) ==
    LET s == c.s
        size == c.size
        n == c.n
        frame == c.s.ws.read_frame
        \* the header bytes of the raw read r are in place
        Filled(r) ==
            [frame EXCEPT
                !.header = [i \in 1..WEBSOCKET_MAX_HEADER_SIZE |->
                              IF i > frame.header_pos /\ i <= frame.header_pos + r.rc
                              THEN r.data[i - frame.header_pos] ELSE @[i]],
                !.header_pos = @ + r.rc]
        Header(r) ==
            IF r.rc <= 0 THEN {read_error(r.s, n, r.rc)}
            ELSE {IF ~g.ok
                  THEN Returned([SetClosed(r.s) EXCEPT !.ws.read_frame = g.frame, !.errno = EIO],
                                -1)
                  ELSE Looping([r.s EXCEPT !.ws.read_frame = g.frame], size, n) :
                     g \in websocket_get_frame_header(Filled(r))}
        Binary(r) ==
            IF r.rc <= 0 THEN {read_error(r.s, n, r.rc)}
            ELSE {Looping([r.s EXCEPT
                             !.ws.read_frame =
                                 IF d.frame.relayed >= d.frame.expected_len
                                 THEN websocket_clear_frame ELSE d.frame,
                             !.io.delivered = @ \o d.buf],
                          size - d.n, n + d.n) :
                     d \in {relay_data(r.data, r.rc, frame)}}
    IN  IF size = 0 THEN {Returned(s, n)}
        ELSE IF ~frame.frame_ready
        THEN UNION {Header(r) : r \in raw_read(s, frame_bytes_needed(frame))}
        ELSE IF frame.type = CLOSE_FRAME
        THEN UNION {{Returned(o.s, 0) : o \in send_pending_data(t)} :
                       t \in {[s EXCEPT !.ws.close_pending = TRUE,
                                        !.ws.read_frame = websocket_clear_frame,
                                        !.io.closeSeen = TRUE]}}
        ELSE IF frame.type = BINARY_FRAME
        THEN UNION {Binary(r) : r \in raw_read(s, Min(size, frame.expected_len - frame.relayed))}
        ELSE {Looping([s EXCEPT !.ws.read_frame = websocket_clear_frame], size, n)}

\* the loop, from the calls in progress cs: every way it can end
RECURSIVE websocket_read_loop(_)
websocket_read_loop(cs) ==
    IF \A c \in cs : c.done THEN cs
    ELSE UNION {websocket_read_loop(nxt) :
                   nxt \in {UNION {IF c.done THEN {c} ELSE websocket_read_pass(c) : c \in cs}}}

websocket_read(s, size) ==
    IF s.ws.closed \/ s.ws.close_pending
    THEN {[s |-> r.s, rc |-> 0] : r \in raw_read(s, 128)}
    ELSE {[s |-> c.s, rc |-> c.rc] : c \in websocket_read_loop({Looping(s, size, 0)})}

(***************************************************************************)
(* The connection as a state machine.                                      *)
\* g_new0(RedsWebSocket, 1), websocket.c:652
NewWs ==
    [closed |-> FALSE, read_frame |-> websocket_clear_frame, write_remainder |-> 0,
     write_header |-> ZeroHeader, write_header_pos |-> 0, write_header_len |-> 0,
     close_pending |-> FALSE]

(***************************************************************************)
(* The handshake: websocket.c:99-110 and 577-660.  A C string is the       *)
(* sequence of its characters; a pointer into it is an index, 0 for NULL.  *)
(***************************************************************************)
UpperCase ==
    <<"A", "B", "C", "D", "E", "F", "G", "H", "I", "J", "K", "L", "M", "N", "O",
      "P", "Q", "R", "S", "T", "U", "V", "W", "X", "Y", "Z">>

LowerCase ==
    <<"a", "b", "c", "d", "e", "f", "g", "h", "i", "j", "k", "l", "m", "n", "o",
      "p", "q", "r", "s", "t", "u", "v", "w", "x", "y", "z">>

tolower(c) ==
    IF \E k \in 1..26 : UpperCase[k] = c
    THEN LowerCase[CHOOSE k \in 1..26 : UpperCase[k] = c]
    ELSE c

\* the white space of the C locale that a string of the model can hold
isspace(c) == c \in {" ", "\t", "\n", "\r", "\f"}

\* "GET "
GetPrefix ==
    <<"G", "E", "T", " ">>

\* "\nSec-WebSocket-Protocol:"
ProtocolHeader ==
    <<"\n", "S", "e", "c", "-", "W", "e", "b", "S", "o", "c", "k", "e", "t", "-",
      "P", "r", "o", "t", "o", "c", "o", "l", ":">>

\* "\nSec-WebSocket-Key:"
KeyHeader ==
    <<"\n", "S", "e", "c", "-", "W", "e", "b", "S", "o", "c", "k", "e", "t", "-",
      "K", "e", "y", ":">>

\* "binary"
Binary ==
    <<"b", "i", "n", "a", "r", "y">>

\* "\r\n\r\n"
HeaderEnd ==
    <<"\r", "\n", "\r", "\n">>

\* where the first occurrence of needle in haystack starts, case ignored
strcasestr(haystack, needle) ==
    LET hits == {i \in 1..(Len(haystack) - Len(needle) + 1) :
                    \A j \in 1..Len(needle) :
                        tolower(haystack[i + j - 1]) = tolower(needle[j])}
    IN  IF hits = {} THEN 0 ELSE CHOOSE i \in hits : \A j \in hits : i <= j

find_str(haystack, needle) ==
    LET s == strcasestr(haystack, needle)
    IN  IF s # 0 THEN s + Len(needle) ELSE 0

\* strncmp(buf, str, Len(str)) == 0
strncmp_equal(buf, str) ==
    Len(buf) >= Len(str) /\ SubSeq(buf, 1, Len(str)) = str

g_str_has_suffix(str, suffix) ==
    Len(str) >= Len(suffix) /\ SubSeq(str, Len(str) - Len(suffix) + 1, Len(str)) = suffix

\* a white-space directive of sscanf reading str from index i: the index of
\* the first character that is not white space, or of the end
RECURSIVE skip_space(_, _)
skip_space(str, i) ==
    IF i <= Len(str) /\ isspace(str[i]) THEN skip_space(str, i + 1) ELSE i

\* binary_pos after sscanf(str + p - 1, " binary %n", &binary_pos),
\* websocket.c:590-591: -1 unless "binary" follows the white space
sscanf_binary(str, p) ==
    LET a == skip_space(str, p)
    IN  IF a + Len(Binary) - 1 <= Len(str) /\ SubSeq(str, a, a + Len(Binary) - 1) = Binary
        THEN skip_space(str, a + Len(Binary)) - p
        ELSE -1

websocket_is_start(buf) ==
    LET protocol == find_str(buf, ProtocolHeader)
        key == find_str(buf, KeyHeader)
    IN  IF \/ ~strncmp_equal(buf, GetPrefix)
           \/ protocol = 0
           \/ key = 0
           \/ ~g_str_has_suffix(buf, HeaderEnd)
        THEN FALSE
        ELSE sscanf_binary(buf, protocol) > 0

\* sizeof(rbuf)
RBUF_SIZE == 4096

\* strlen(outbuf): the reply of websocket_create_reply with the 28
\* characters of a base64 SHA-1 for %s
ReplyLen == 161

\* websocket_new for the len = Len(buf) bytes the caller has read already:
\* every [s, handle, rbuf], handle telling whether a handle is returned
websocket_new(s, buf) ==
    UNION {IF r.rc <= 0 THEN {[s |-> r.s, handle |-> FALSE, rbuf |-> buf]}
           ELSE IF ~websocket_is_start(buf \o r.data)
           THEN {[s |-> r.s, handle |-> FALSE, rbuf |-> buf \o r.data]}
           ELSE {[s |-> IF w.rc = ReplyLen THEN [w.s EXCEPT !.ws = NewWs] ELSE w.s,
                  handle |-> w.rc = ReplyLen,
                  rbuf |-> buf \o r.data] : w \in raw_write(r.s, <<>>, ReplyLen)} :
              r \in raw_read(s, RBUF_SIZE - Len(buf) - 1)}

(***************************************************************************)
(* The client's migration counter: red-channel.c:398-418 and 680-836.  A   *)
(* client c is the RedClient with, besides its fields, the number of       *)
(* main_dispatcher_seamless_migrate_dst_complete calls made for it         *)
(* (notified), of spice_error reports (errors), of                         *)
(* red_channel_client_semi_seamless_migration_complete calls made for its  *)
(* channel-clients (semi_completed), of                                    *)
(* reds_on_client_semi_seamless_migrate_complete calls (reds_notified),    *)
(* whether its mutex is held (lock) and whether a spice_assert ended the   *)
(* process (aborted); channels holds for each channel-client what its      *)
(* set_migration_seamless answers.                                         *)
(***************************************************************************)
red_client_new(migrated) ==
    [channels |-> <<>>, during_target_migrate |-> migrated, seamless_migrate |-> FALSE,
     num_migrated_channels |-> 0, refs |-> 1, released |-> 0, lock |-> FALSE,
     notified |-> 0,
     errors |-> 0, semi_completed |-> 0, reds_notified |-> 0, aborted |-> FALSE]

\* spice_error reports the error and the caller goes on
spice_error(c) == [c EXCEPT !.errors = @ + 1]

\* whether the channel-client takes the seamless mode: what it was created with
red_channel_client_set_migration_seamless(rcc) == rcc

\* the channel-clients of channels that take the seamless mode
RECURSIVE Accepting(_)
Accepting(channels) ==
    IF channels = <<>> THEN 0
    ELSE (IF red_channel_client_set_migration_seamless(Head(channels)) THEN 1 ELSE 0)
         + Accepting(Tail(channels))

\* faulty variant: the counter is tested before it is decremented
red_client_seamless_migration_done_for_channel_pre(c) ==
    IF c.num_migrated_channels = 0
    THEN [c |-> [c EXCEPT !.num_migrated_channels = @ - 1,
                          !.during_target_migrate = FALSE,
                          !.seamless_migrate = FALSE,
                          !.notified = @ + 1],
          ret |-> TRUE]
    ELSE [c |-> [c EXCEPT !.num_migrated_channels = @ - 1], ret |-> FALSE]

red_client_seamless_migration_done_for_channel(c) ==
    IF c.num_migrated_channels - 1 = 0
    THEN [c |-> [c EXCEPT !.num_migrated_channels = @ - 1,
                          !.during_target_migrate = FALSE,
                          !.seamless_migrate = FALSE,
                          !.notified = @ + 1],
          ret |-> TRUE]
    ELSE [c |-> [c EXCEPT !.num_migrated_channels = @ - 1], ret |-> FALSE]

red_client_remove_channel(c, i) ==
    [c EXCEPT !.channels = SubSeq(@, 1, i - 1) \o SubSeq(@, i + 1, Len(@))]

\* faulty variant: during_target_migrate is not asserted
red_client_set_migration_seamless_unasserted(c) ==
    [c EXCEPT !.seamless_migrate = TRUE,
              !.num_migrated_channels = @ + Accepting(c.channels)]

red_client_set_migration_seamless(c) ==
    IF ~c.during_target_migrate THEN [c EXCEPT !.aborted = TRUE]
    ELSE [c EXCEPT !.seamless_migrate = TRUE,
                   !.num_migrated_channels = @ + Accepting(c.channels)]

red_client_add_channel(c, rcc) ==
    LET c1 == [c EXCEPT !.channels = <<rcc>> \o @]
    IN  IF /\ c.during_target_migrate
           /\ c.seamless_migrate
           /\ red_channel_client_set_migration_seamless(rcc)
        THEN [c1 EXCEPT !.num_migrated_channels = @ + 1]
        ELSE c1

\* faulty variant: the call goes on to the completion after spice_error
red_client_semi_seamless_migrate_complete_through(c) ==
    LET locked == [c EXCEPT !.lock = TRUE]
        checked == IF ~locked.during_target_migrate \/ locked.seamless_migrate
                   THEN spice_error(locked)
                   ELSE locked
    IN  [checked EXCEPT !.during_target_migrate = FALSE,
                        !.semi_completed = @ + Len(c.channels),
                        !.lock = FALSE,
                        !.reds_notified = @ + 1]

\* the mutex is taken first; on the error path it is released and the call
\* returns; otherwise the flag is cleared, every channel-client has its
\* semi_seamless_migration_complete called, the mutex is released and the
\* server context is told
red_client_semi_seamless_migrate_complete(c) ==
    LET locked == [c EXCEPT !.lock = TRUE]
    IN  IF ~locked.during_target_migrate \/ locked.seamless_migrate
        THEN [spice_error(locked) EXCEPT !.lock = FALSE]
        ELSE [locked EXCEPT !.during_target_migrate = FALSE,
                            !.semi_completed = @ + Len(c.channels),
                            !.lock = FALSE,
                            !.reds_notified = @ + 1]

(***************************************************************************)
NewIo == [rawIn |-> <<>>, eof |-> FALSE, out |-> <<>>, delivered |-> <<>>, sent |-> <<>>,
          closeSeen |-> FALSE]

NoCall == [op |-> "none", rc |-> 0, errno |-> "none", closedAfter |-> "no", aborted |-> FALSE]

\* the frames the peer sends
Frames ==
    [hello    |-> <<130, 133, 55, 250, 33, 61, 127, 159, 77, 81, 88>>,
     close    |-> <<136, 0>>,
     rsv      |-> <<194, 0>>,
     pingcut  |-> <<9, 0>>,
     op3      |-> <<131, 0>>,
     close126 |-> <<136, 126, 0, 126>>,
     close64  |-> <<136, 127, 0, 0, 0, 1, 0, 0, 0, 0>>,
     plain    |-> <<130, 2, 65, 66>>,
     cont     |-> <<0, 130, 1, 2, 3, 4, 64, 64>>,
     contnil  |-> <<0, 128, 1, 2, 3, 4>>,
     ping2    |-> <<137, 130, 1, 2, 3, 4, 200, 1>>,
     text1    |-> <<129, 129, 1, 2, 3, 4, 200>>,
     fincont  |-> <<128, 130, 1, 2, 3, 4, 200, 1>>,
     pong0    |-> <<138, 128, 1, 2, 3, 4>>,
     empty    |-> <<130, 128, 1, 2, 3, 4>>]

FrameNames == {"hello", "close", "rsv", "pingcut", "op3", "close126", "close64"}

\* the frames that carry data: a masked and an unmasked final binary frame,
\* a continuation frame without FIN and one with an empty payload
DataFrameNames == {"hello", "plain", "cont", "contnil"}

\* frames of valid opcodes that websocket_read does not handle, with and
\* without a payload, and binary frames with and without a payload
MixedFrameNames == {"ping2", "text1", "fincont", "pong0", "hello", "empty"}

\* the sizes websocket_read is called with
ReadSizes == {2, 8}
\* the lengths websocket_write is called with
WriteLens == {3}
\* the iov_len vectors websocket_writev is called with
Iovs == {<<2, 2>>}
\* the same for the connection that only writes
LongWriteLens == {0, 3, 126}
LongIovs == {<<3>>, <<2, 2>>, <<126>>}

\* the working state at the start of a call
Enter == [ws |-> ws, io |-> io, errno |-> "none", kind |-> "none", closedAfter |-> "no",
          aborted |-> FALSE]

\* the call op ends with outcome o
Return(op, o) ==
    /\ ws' = o.s.ws
    /\ io' = o.s.io
    /\ last' = [op |-> op, rc |-> o.rc, errno |-> o.s.errno,
                closedAfter |-> o.s.closedAfter, aborted |-> o.s.aborted]
    /\ UNCHANGED <<rt, hs, client>>

\* no spice_assert has ended the process
Alive == ~last.aborted

Read ==
    /\ Alive
    /\ \E size \in ReadSizes : \E o \in websocket_read(Enter, size) : Return("read", o)

WriteOf(lens, max) ==
    /\ Alive
    /\ Len(io.out) < max
    /\ \E len \in lens : \E o \in websocket_write(Enter, len) : Return("write", o)

WritevOf(iovs, max) ==
    /\ Alive
    /\ Len(io.out) < max
    /\ \E iov \in iovs : \E o \in websocket_writev(Enter, iov) : Return("writev", o)

Write == WriteOf(WriteLens, MaxOut)

Writev == WritevOf(Iovs, MaxOut)

LongWrite == WriteOf(LongWriteLens, MaxLongOut)

LongWritev == WritevOf(LongIovs, MaxLongOut)

\* the peer sends the frame f
Sends(f) ==
    /\ io' = [io EXCEPT !.rawIn = @ \o Frames[f], !.sent = Append(@, f)]
    /\ last' = NoCall
    /\ UNCHANGED <<ws, rt, hs, client>>

\* the peer sends a frame once the frames before it have been read
PeerSend ==
    /\ Alive
    /\ ~io.eof
    /\ Len(io.sent) < MaxInFrames
    /\ io.rawIn = <<>>
    /\ \E f \in FrameNames : Sends(f)

\* the peer sends a frame, the first or right behind another
PeerBurst ==
    /\ Alive
    /\ ~io.eof
    /\ Len(io.sent) < MaxBurst
    /\ io.rawIn = <<>> \/ last.op = "none"
    /\ \E f \in FrameNames : Sends(f)

\* the peer sends a data frame, the first or right behind another
PeerData ==
    /\ Alive
    /\ ~io.eof
    /\ Len(io.sent) < MaxBurst
    /\ io.rawIn = <<>> \/ last.op = "none"
    /\ \E f \in DataFrameNames : Sends(f)

\* the peer shuts its side of the stream down
PeerShutdown ==
    /\ Alive
    /\ ~io.eof
    /\ io' = [io EXCEPT !.eof = TRUE]
    /\ last' = NoCall
    /\ UNCHANGED <<ws, rt, hs, client>>

Idle == [phase |-> "idle"]

Init ==
    /\ ws = NewWs
    /\ io = NewIo
    /\ last = NoCall
    /\ rt = Idle
    /\ hs = Idle
    /\ client = Idle

Next == Read \/ Write \/ Writev \/ PeerSend \/ PeerShutdown

Spec == Init /\ [][Next]_vars

\* a connection on which the caller only writes
NextW == LongWrite \/ LongWritev

SpecW == Init /\ [][NextW]_vars

\* long and short frames written while the peer closes
NextAck ==
    \/ Read
    \/ WriteOf({3}, MaxAckOut)
    \/ WritevOf({<<126>>}, MaxAckOut)
    \/ PeerSend
    \/ PeerShutdown

SpecAck == Init /\ [][NextAck]_vars

\* a connection on which the caller only reads, the peer sending in bursts
NextR == Read \/ PeerBurst \/ PeerShutdown

SpecR == Init /\ [][NextR]_vars

\* a connection on which the caller only reads and the peer sends data
\* frames
NextF == Read \/ PeerData

SpecF == Init /\ [][NextF]_vars

\* the peer sends frames of opcodes the reader discards, and binary frames
PeerMixed ==
    /\ Alive
    /\ ~io.eof
    /\ Len(io.sent) < MaxBurst
    /\ io.rawIn = <<>> \/ last.op = "none"
    /\ \E f \in MixedFrameNames : Sends(f)

NextD == Read \/ PeerMixed

SpecD == Init /\ [][NextD]_vars

(***************************************************************************)
(* The length round trip: fill_header for a length, then extract_length    *)
(* on the header it wrote, as websocket_get_frame_header calls it.         *)
(***************************************************************************)
\* the uint64_t with the byte v at index j and 0 elsewhere
OneByte(j, v) == [k \in 1..8 |-> IF k = j THEN v ELSE 0]

\* the lengths tried: around the changes of encoding, and one byte at each
\* of the eight positions
LenInputs ==
    {NatToU64(n) : n \in {0, 1, 125, 126, 127, 255, 256, 65535, 65536, 65537}}
    \cup {OneByte(j, v) : j \in 1..8, v \in {1, 127, 128, 255}}

InitLen ==
    /\ ws = NewWs
    /\ io = NewIo
    /\ last = NoCall
    /\ rt \in {[phase |-> "input", len |-> l] : l \in LenInputs}
    /\ hs = Idle
    /\ client = Idle

FillHeader ==
    /\ rt.phase = "input"
    /\ LET fh == fill_header(ZeroHeader, rt.len)
       IN  rt' = [phase |-> "filled", len |-> rt.len, header |-> fh.header, used |-> fh.used]
    /\ UNCHANGED <<ws, io, last, hs, client>>

ExtractLength ==
    /\ rt.phase = "filled"
    /\ \E o \in extract_length(Tail(rt.header), 1) :
          rt' = [phase |-> "extracted", len |-> rt.len, header |-> rt.header,
                 used |-> rt.used, outlen |-> o.outlen, xused |-> o.used]
    /\ UNCHANGED <<ws, io, last, hs, client>>

NextLen == FillHeader \/ ExtractLength

SpecLen == InitLen /\ [][NextLen]_vars

(***************************************************************************)
(* The handshake of a new connection.                                      *)
(***************************************************************************)
\* "GET / HTTP/1.1\r\n" and the same with another method
RequestLines ==
    [GET |->
    <<"G", "E", "T", " ", "/", " ", "H", "T", "T", "P", "/", "1", ".", "1", "\r",
      "\n">>,
     PUT |->
    <<"P", "U", "T", " ", "/", " ", "H", "T", "T", "P", "/", "1", ".", "1", "\r",
      "\n">>]

\* the Sec-WebSocket-Key header line
KeyLines ==
    [none  |-> <<>>,
     exact |->
    <<"S", "e", "c", "-", "W", "e", "b", "S", "o", "c", "k", "e", "t", "-", "K",
      "e", "y", ":", " ", "k", "\r", "\n">>,
     lower |->
    <<"s", "e", "c", "-", "w", "e", "b", "s", "o", "c", "k", "e", "t", "-", "k",
      "e", "y", ":", " ", "k", "\r", "\n">>]

\* the name of the Sec-WebSocket-Protocol header
ProtocolNames ==
    [none  |-> <<>>,
     exact |->
    <<"S", "e", "c", "-", "W", "e", "b", "S", "o", "c", "k", "e", "t", "-", "P",
      "r", "o", "t", "o", "c", "o", "l", ":">>,
     upper |->
    <<"S", "E", "C", "-", "W", "E", "B", "S", "O", "C", "K", "E", "T", "-", "P",
      "R", "O", "T", "O", "C", "O", "L", ":">>]

\* the value sent for it
ProtocolValues ==
    [binary  |-> <<"b", "i", "n", "a", "r", "y">>,
     spaced  |-> <<" ", "b", "i", "n", "a", "r", "y", " ">>,
     binaryX |-> <<"b", "i", "n", "a", "r", "y", "X">>,
     xbinary |-> <<"x", "b", "i", "n", "a", "r", "y">>,
     bin     |-> <<"b", "i", "n">>,
     capital |-> <<"B", "i", "n", "a", "r", "y">>]

CRLF == <<"\r", "\n">>

\* what ends the request: the empty line or nothing
Endings == [crlf |-> CRLF, none |-> <<>>]

Requests ==
    [line : DOMAIN RequestLines, key : DOMAIN KeyLines, proto : DOMAIN ProtocolNames,
     value : DOMAIN ProtocolValues, ending : DOMAIN Endings]

\* the characters of the request req
Text(req) ==
    RequestLines[req.line] \o KeyLines[req.key]
    \o (IF req.proto = "none" THEN <<>>
        ELSE ProtocolNames[req.proto] \o ProtocolValues[req.value] \o CRLF)
    \o Endings[req.ending]

\* how many bytes of the request the caller has read when it calls websocket_new
Peeked == {0, 16}

InitHS ==
    /\ ws = NewWs
    /\ last = NoCall
    /\ rt = Idle
    /\ client = Idle
    /\ \E req \in Requests, len \in Peeked :
          /\ hs = [phase |-> "request", req |-> req, buf |-> SubSeq(Text(req), 1, len),
                   handle |-> FALSE]
          /\ io = [NewIo EXCEPT !.rawIn = SubSeq(Text(req), len + 1, Len(Text(req)))]

Handshake ==
    /\ hs.phase = "request"
    /\ \E o \in websocket_new(Enter, hs.buf) :
          /\ hs' = [hs EXCEPT !.phase = "done", !.buf = o.rbuf, !.handle = o.handle]
          /\ ws' = o.s.ws
          /\ io' = o.s.io
          /\ last' = [NoCall EXCEPT !.op = "new", !.errno = o.s.errno]
    /\ UNCHANGED <<rt, client>>

NextHS == Handshake

SpecHS == InitHS /\ [][NextHS]_vars

(***************************************************************************)
(* A client on the target side of a migration.  Next to the RedClient,     *)
(* client keeps the count of the num_migrated_channels++ executed          *)
(* (counted), of the done calls (done), what the latest done call returned *)
(* (ret), whether a done call was made with none outstanding (misuse), and *)
(* the calls of red_client_add_channel (added) and of                      *)
(* red_client_set_migration_seamless (sets) made, and the name of the      *)
(* latest call (op).                                                       *)
(***************************************************************************)
InitClient ==
    /\ ws = NewWs
    /\ io = NewIo
    /\ last = NoCall
    /\ rt = Idle
    /\ hs = Idle
    /\ \E migrated \in BOOLEAN :
          client = [phase |-> "client", c |-> red_client_new(migrated), counted |-> 0,
                    done |-> 0, ret |-> "none", misuse |-> FALSE, sets |-> 0,
                    added |-> 0, op |-> "red_client_new"]

\* the call of op leaves the RedClient c
ClientReturn(op, c) ==
    /\ client' = [client EXCEPT !.c = c, !.op = op]
    /\ UNCHANGED <<ws, io, last, rt, hs>>

AddChannel ==
    /\ ~client.c.aborted
    /\ client.added < MaxChannels
    /\ \E rcc \in BOOLEAN :
          LET c == red_client_add_channel(client.c, rcc)
          IN  client' = [client EXCEPT
                            !.c = c,
                            !.op = "red_client_add_channel",
                            !.added = @ + 1,
                            !.counted = @ + (c.num_migrated_channels
                                               - client.c.num_migrated_channels)]
    /\ UNCHANGED <<ws, io, last, rt, hs>>

RemoveChannel ==
    /\ ~client.c.aborted
    /\ \E i \in DOMAIN client.c.channels :
          ClientReturn("red_client_remove_channel", red_client_remove_channel(client.c, i))

SetMigrationSeamless ==
    /\ ~client.c.aborted
    /\ client.sets < MaxSets
    /\ LET c == red_client_set_migration_seamless(client.c)
       IN  client' = [client EXCEPT
                         !.c = c,
                         !.op = "red_client_set_migration_seamless",
                         !.sets = @ + 1,
                         !.counted = @ + (c.num_migrated_channels
                                            - client.c.num_migrated_channels)]
    /\ UNCHANGED <<ws, io, last, rt, hs>>

DoneForChannel ==
    /\ ~client.c.aborted
    /\ client.c.num_migrated_channels > -MaxNeg
    /\ LET o == red_client_seamless_migration_done_for_channel(client.c)
       IN  client' = [client EXCEPT
                         !.c = o.c,
                         !.op = "red_client_seamless_migration_done_for_channel",
                         !.done = @ + 1,
                         !.ret = o.ret,
                         !.misuse = @ \/ client.done >= client.counted]
    /\ UNCHANGED <<ws, io, last, rt, hs>>

SemiSeamlessComplete ==
    /\ ~client.c.aborted
    /\ client.c.errors < MaxErrors
    /\ ClientReturn("red_client_semi_seamless_migrate_complete",
                    red_client_semi_seamless_migrate_complete(client.c))

NextClient ==
    \/ AddChannel
    \/ RemoveChannel
    \/ SetMigrationSeamless
    \/ DoneForChannel
    \/ SemiSeamlessComplete

SpecClient == InitClient /\ [][NextClient]_vars

(***************************************************************************)
(* The client's mutex: red-channel.c:398-418, 578-584 and 712-846.  Each   *)
(* operation is the sequence of its steps on the mutex and on the fields   *)
(* the mutex guards: the channels list, during_target_migrate,             *)
(* seamless_migrate and num_migrated_channels.  The steps are those of the *)
(* path on which the operation's conditions hold.  Threads run operations  *)
(* step by step; client.lock is the thread holding the mutex, 0 for none.  *)
(***************************************************************************)
pthread_mutex_lock == [k |-> "lock", f |-> "lock"]
pthread_mutex_unlock == [k |-> "unlock", f |-> "lock"]
ReadOf(f) == [k |-> "read", f |-> f]
WriteTo(f) == [k |-> "write", f |-> f]

\* the caller of an operation documented with "client->lock should be
\* locked" takes the mutex around it
CallerLocks(steps) == <<pthread_mutex_lock>> \o steps \o <<pthread_mutex_unlock>>

\* the steps of each operation, in the order of its statements
Steps ==
    [red_client_seamless_migration_done_for_channel |->
         <<pthread_mutex_lock, WriteTo("num_migrated_channels"),
           ReadOf("num_migrated_channels"), WriteTo("during_target_migrate"),
           WriteTo("seamless_migrate"), pthread_mutex_unlock>>,
     red_client_remove_channel |->
         <<pthread_mutex_lock, WriteTo("channels"), pthread_mutex_unlock>>,
     \* spice_assert(client->during_target_migrate) comes before the lock
     red_client_set_migration_seamless |->
         <<ReadOf("during_target_migrate"), pthread_mutex_lock,
           WriteTo("seamless_migrate"), ReadOf("channels"),
           WriteTo("num_migrated_channels"), pthread_mutex_unlock>>,
     \* g_list_length(client->channels), then FOREACH_CHANNEL_CLIENT
     red_client_migrate |-> <<ReadOf("channels"), ReadOf("channels")>>,
     red_client_destroy |-> <<ReadOf("channels"), ReadOf("channels")>>,
     red_client_get_channel |-> CallerLocks(<<ReadOf("channels")>>),
     red_client_add_channel |->
         CallerLocks(<<WriteTo("channels"), ReadOf("during_target_migrate"),
                       ReadOf("seamless_migrate"), WriteTo("num_migrated_channels")>>),
     red_client_semi_seamless_migrate_complete |->
         <<pthread_mutex_lock, ReadOf("during_target_migrate"),
           ReadOf("seamless_migrate"), WriteTo("during_target_migrate"),
           ReadOf("channels"), pthread_mutex_unlock>>,
     red_client_during_migrate_at_target |->
         <<pthread_mutex_lock, ReadOf("during_target_migrate"), pthread_mutex_unlock>>]

Threads == 1 .. MaxThreads

InitLock ==
    /\ ws = NewWs
    /\ io = NewIo
    /\ last = NoCall
    /\ rt = Idle
    /\ hs = Idle
    /\ client = [phase |-> "threads", lock |-> 0,
                 op |-> [t \in Threads |-> "none"],
                 todo |-> [t \in Threads |-> <<>>],
                 destroyed |-> FALSE]

\* thread t goes past the step at the head of its operation; red_client_destroy
\* ends with the client released
Advance(t, lock) ==
    /\ client' = [client EXCEPT
                      !.lock = lock,
                      !.todo[t] = Tail(@),
                      !.destroyed = @ \/ (client.op[t] = "red_client_destroy"
                                            /\ Len(client.todo[t]) = 1)]
    /\ UNCHANGED <<ws, io, last, rt, hs>>

\* a thread that runs no operation calls one
CallOp ==
    /\ ~client.destroyed
    /\ \E t \in Threads, op \in DOMAIN Steps :
          /\ client.todo[t] = <<>>
          /\ client' = [client EXCEPT !.op[t] = op, !.todo[t] = Steps[op]]
    /\ UNCHANGED <<ws, io, last, rt, hs>>

\* pthread_mutex_lock returns once no thread holds the mutex
MutexLock ==
    \E t \in Threads :
        /\ client.todo[t] # <<>>
        /\ Head(client.todo[t]).k = "lock"
        /\ client.lock = 0
        /\ Advance(t, t)

MutexUnlock ==
    \E t \in Threads :
        /\ client.todo[t] # <<>>
        /\ Head(client.todo[t]).k = "unlock"
        /\ Advance(t, 0)

\* a read or a write of a field of the client
FieldAccess ==
    \E t \in Threads :
        /\ client.todo[t] # <<>>
        /\ Head(client.todo[t]).k \in {"read", "write"}
        /\ Advance(t, client.lock)

NextLock ==
    \/ CallOp
    \/ MutexLock
    \/ MutexUnlock
    \/ FieldAccess

SpecLock == InitLock /\ [][NextLock]_vars

\* spice/protocol.h, used at red-channel.c:339
SPICE_COMMON_CAP_MINI_HEADER == 3

(***************************************************************************)
(* Channels and their channel-clients: red-channel.c:256-259, 365-395,     *)
(* 496-673, 694-710, 750-780 and 916-954.  A world w holds the             *)
(* channel-clients made so far (rcc; a channel-client is its index), the   *)
(* clients list of every channel, the channels red_channel_destroy was     *)
(* called for (gone), the reference count of every channel (chrefs), the   *)
(* channels freed and the RedClient c, whose channels list holds           *)
(* channel-clients.  A channel-client has its reference count (refs, 1 at  *)
(* its creation) and whether it is freed.  A                               *)
(* channel-client has its channel, its connected, destroying, destroyed    *)
(* and blocked flags, its pipe, the item being sent (sending, at most      *)
(* one), the items the latest call handed to its stream (sent), its remote *)
(* capabilities and the calls red_client_destroy made for it (log).        *)
(***************************************************************************)
Channels == {1, 2}

\* a channel-client as its construction leaves it
red_channel_client_new(ch, common_caps, caps) ==
    [channel |-> ch, connected |-> TRUE, destroying |-> FALSE, destroyed |-> FALSE,
     blocked |-> FALSE, pipe |-> <<>>, sending |-> <<>>, sent |-> <<>>,
     common_caps |-> common_caps, caps |-> caps, log |-> <<>>,
     refs |-> 1, freed |-> FALSE]

\* the place of the first link of list that holds data, 0 when none does
g_list_find(list, data) ==
    LET found == {i \in DOMAIN list : list[i] = data}
    IN  IF found = {} THEN 0 ELSE CHOOSE i \in found : \A j \in found : i <= j

red_channel_add_client(w, ch, id) == [w EXCEPT !.clients[ch] = <<id>> \o @]

\* faulty variant: the list without the link is not stored
red_channel_remove_client_kept(w, ch, id) == w

\* g_return_if_fail, spice_return_if_fail, then g_list_remove_link
red_channel_remove_client(w, ch, id) ==
    LET link == g_list_find(w.clients[ch], id)
    IN  IF w.rcc[id].channel # ch THEN w
        ELSE IF link = 0 THEN w
        ELSE [w EXCEPT !.clients[ch] = SubSeq(@, 1, link - 1) \o SubSeq(@, link + 1, Len(@))]

\* a connected channel-client drops its pipe and the item being sent and
\* leaves its channel's clients list
red_channel_client_disconnect(w, id) ==
    IF ~w.rcc[id].connected THEN w
    ELSE red_channel_remove_client([w EXCEPT !.rcc[id].connected = FALSE,
                                             !.rcc[id].pipe = <<>>,
                                             !.rcc[id].sending = <<>>],
                                   w.rcc[id].channel, id)

red_channel_client_default_disconnect(w, id) == red_channel_client_disconnect(w, id)

\* g_object_unref(channel): the last reference frees the channel
\* (red_channel_finalize)
g_object_unref_channel(w, ch) ==
    [w EXCEPT !.chrefs[ch] = @ - 1,
              !.freed = IF w.chrefs[ch] - 1 = 0 THEN @ \cup {ch} ELSE @]

red_channel_client_ref(w, id) == [w EXCEPT !.rcc[id].refs = @ + 1]

\* the last reference frees the channel-client, which gives up its
\* reference to its channel
red_channel_client_unref(w, id) ==
    IF w.rcc[id].refs - 1 # 0 THEN [w EXCEPT !.rcc[id].refs = @ - 1]
    ELSE g_object_unref_channel([w EXCEPT !.rcc[id].refs = 0, !.rcc[id].freed = TRUE],
                                w.rcc[id].channel)

\* the channel-client is marked, disconnected and taken off its client, and
\* the reference of its creation is given up
red_channel_client_destroy(w, id) ==
    LET cut == red_channel_client_disconnect([w EXCEPT !.rcc[id].destroying = TRUE], id)
        at == g_list_find(cut.c.channels, id)
    IN  red_channel_client_unref(
            [cut EXCEPT !.c = IF at = 0 THEN @ ELSE red_client_remove_channel(@, at),
                        !.rcc[id].destroyed = TRUE],
            id)

\* an item of the type goes to the end of the pipe, unless the
\* channel-client is being destroyed or is not connected
red_channel_client_pipe_add_type(w, id, type) ==
    IF w.rcc[id].destroying \/ ~w.rcc[id].connected THEN w
    ELSE [w EXCEPT !.rcc[id].pipe = Append(@, type)]

\* the pipe is drained in order, or the stream blocks on its first item
red_channel_client_push(w, id) ==
    IF w.rcc[id].blocked \/ w.rcc[id].pipe = <<>> THEN {w}
    ELSE {[w EXCEPT !.rcc[id].sent = @ \o w.rcc[id].pipe, !.rcc[id].pipe = <<>>],
          [w EXCEPT !.rcc[id].sending = <<Head(w.rcc[id].pipe)>>,
                    !.rcc[id].pipe = Tail(@),
                    !.rcc[id].blocked = TRUE]}

\* the stream takes the item being sent, or still takes nothing
red_channel_client_send(w, id) ==
    IF w.rcc[id].sending = <<>> THEN {w}
    ELSE {w, [w EXCEPT !.rcc[id].sent = @ \o w.rcc[id].sending,
                       !.rcc[id].sending = <<>>,
                       !.rcc[id].blocked = FALSE]}

\* nothing has come, or the peer is gone and the channel-client disconnects
red_channel_client_receive(w, id) == {w, red_channel_client_disconnect(w, id)}

\* the worlds the call func leaves for the channel-client
call_func(w, id, func) ==
    CASE func.name = "red_channel_client_disconnect" ->
             {red_channel_client_disconnect(w, id)}
      [] func.name = "red_channel_client_destroy" -> {red_channel_client_destroy(w, id)}
      [] func.name = "red_channel_client_send" -> red_channel_client_send(w, id)
      [] func.name = "red_channel_client_receive" -> red_channel_client_receive(w, id)
      [] func.name = "red_channel_client_push" -> red_channel_client_push(w, id)
      [] func.name = "red_channel_client_pipe_add_type" ->
             {red_channel_client_pipe_add_type(w, id, func.type)}

\* func is called for each element of the list as it was at the call
RECURSIVE g_list_foreach(_, _, _)
g_list_foreach(w, list, func) ==
    IF list = <<>> THEN {w}
    ELSE UNION {g_list_foreach(v, Tail(list), func) : v \in call_func(w, Head(list), func)}

red_channel_disconnect(w, ch) ==
    g_list_foreach(w, w.clients[ch], [name |-> "red_channel_client_disconnect"])

\* faulty variant: the channel is freed whatever references there are
red_channel_destroy_freeing(w, ch) ==
    {[v EXCEPT !.gone = @ \cup {ch}, !.freed = @ \cup {ch}] :
        v \in g_list_foreach(w, w.clients[ch], [name |-> "red_channel_client_destroy"])}

\* the channel-clients are destroyed and the reference of the caller (gone
\* holds the channels it was given up for) is dropped
red_channel_destroy(w, ch) ==
    {g_object_unref_channel([v EXCEPT !.gone = @ \cup {ch}], ch) :
        v \in g_list_foreach(w, w.clients[ch], [name |-> "red_channel_client_destroy"])}

red_channel_receive(w, ch) ==
    g_list_foreach(w, w.clients[ch], [name |-> "red_channel_client_receive"])

red_channel_send(w, ch) ==
    g_list_foreach(w, w.clients[ch], [name |-> "red_channel_client_send"])

red_channel_push(w, ch) ==
    g_list_foreach(w, w.clients[ch], [name |-> "red_channel_client_push"])

\* faulty variant: the item goes to the first channel-client only
red_channel_pipes_add_type_first(w, ch, type) ==
    g_list_foreach(w, IF w.clients[ch] = <<>> THEN <<>> ELSE <<Head(w.clients[ch])>>,
                   [name |-> "red_channel_client_pipe_add_type", type |-> type])

red_channel_pipes_add_type(w, ch, type) ==
    g_list_foreach(w, w.clients[ch],
                   [name |-> "red_channel_client_pipe_add_type", type |-> type])

\* the item a creator makes
NewItem == 3

\* creator(rcc, data, index): an item for the indices in data, NULL (0) for
\* the others
creator(id, data, index) == IF index \in data THEN NewItem ELSE 0

\* red_channel_client_pipe_add: the item is the newest of the pipe, unless
\* the channel-client is being destroyed or is not connected
red_channel_client_pipe_add(w, id, item) ==
    IF w.rcc[id].destroying \/ ~w.rcc[id].connected THEN w
    ELSE [w EXCEPT !.rcc[id].pipe = Append(@, item)]

\* red_channel_client_pipe_add_tail: the item is the next to be sent
red_channel_client_pipe_add_tail(w, id, item) ==
    IF w.rcc[id].destroying \/ ~w.rcc[id].connected THEN w
    ELSE [w EXCEPT !.rcc[id].pipe = <<item>> \o @]

call_pipe_add(w, id, item, pipe_add) ==
    IF pipe_add = "red_channel_client_pipe_add"
    THEN red_channel_client_pipe_add(w, id, item)
    ELSE red_channel_client_pipe_add_tail(w, id, item)

\* the loop with an index that counts the items made
RECURSIVE red_channel_pipes_create_batch_loop_dense(_, _, _, _, _, _, _)
red_channel_pipes_create_batch_loop_dense(w, list, data, pipe_add, num, n, calls) ==
    IF list = <<>> THEN [w |-> w, n |-> n, calls |-> calls]
    ELSE LET rcc == Head(list)
             item == creator(rcc, data, num)
             called == Append(calls, <<rcc, num>>)
         IN  IF item # 0
             THEN red_channel_pipes_create_batch_loop_dense(
                      call_pipe_add(w, rcc, item, pipe_add), Tail(list), data,
                      pipe_add, num + 1, n + 1, called)
             ELSE red_channel_pipes_create_batch_loop_dense(
                      w, Tail(list), data, pipe_add, num, n, called)

\* FOREACH_CLIENT of red_channel_pipes_create_batch: calls holds the
\* arguments (rcc, index) of the calls of the creator, in order
RECURSIVE red_channel_pipes_create_batch_loop(_, _, _, _, _, _, _)
red_channel_pipes_create_batch_loop(w, list, data, pipe_add, num, n, calls) ==
    IF list = <<>> THEN [w |-> w, n |-> n, calls |-> calls]
    ELSE LET rcc == Head(list)
             item == creator(rcc, data, num)
             called == Append(calls, <<rcc, num>>)
         IN  IF item # 0
             THEN red_channel_pipes_create_batch_loop(
                      call_pipe_add(w, rcc, item, pipe_add), Tail(list), data,
                      pipe_add, num + 1, n + 1, called)
             ELSE red_channel_pipes_create_batch_loop(
                      w, Tail(list), data, pipe_add, num + 1, n, called)

\* faulty variant: the index counts the items made
red_channel_pipes_create_batch_dense(w, ch, data, pipe_add) ==
    red_channel_pipes_create_batch_loop_dense(w, w.clients[ch], data, pipe_add,
                                              0, 0, <<>>)

red_channel_pipes_create_batch(w, ch, data, pipe_add) ==
    red_channel_pipes_create_batch_loop(w, w.clients[ch], data, pipe_add, 0, 0, <<>>)

\* ret is <<n>> for a function that returns n and <<>> for a void function
red_channel_pipes_new_add_push(w, ch, data) ==
    LET b == red_channel_pipes_create_batch(w, ch, data, "red_channel_client_pipe_add")
    IN  {[w |-> v, ret |-> <<b.n>>, calls |-> b.calls] : v \in red_channel_push(b.w, ch)}

red_channel_pipes_new_add(w, ch, data) ==
    LET b == red_channel_pipes_create_batch(w, ch, data, "red_channel_client_pipe_add")
    IN  {[w |-> b.w, ret |-> <<>>, calls |-> b.calls]}

red_channel_pipes_new_add_tail(w, ch, data) ==
    LET b == red_channel_pipes_create_batch(w, ch, data,
                                            "red_channel_client_pipe_add_tail")
    IN  {[w |-> b.w, ret |-> <<>>, calls |-> b.calls]}

red_channel_is_connected(w, ch) == w.clients[ch] # <<>>

\* faulty variant: no test for the empty list
red_channel_all_blocked_untested(w, ch) ==
    \A i \in DOMAIN w.clients[ch] : w.rcc[w.clients[ch][i]].blocked

red_channel_all_blocked(w, ch) ==
    IF w.clients[ch] = <<>> THEN FALSE
    ELSE \A i \in DOMAIN w.clients[ch] : w.rcc[w.clients[ch][i]].blocked

red_channel_any_blocked(w, ch) ==
    \E i \in DOMAIN w.clients[ch] : w.rcc[w.clients[ch][i]].blocked

\* the socket of a channel-client's stream is its index
red_channel_get_first_socket(w, ch) ==
    IF w.clients[ch] = <<>> THEN -1 ELSE w.clients[ch][1]

red_channel_no_item_being_sent(w, ch) ==
    \A i \in DOMAIN w.clients[ch] : w.rcc[w.clients[ch][i]].sending = <<>>

red_channel_test_remote_common_cap(w, ch, cap) ==
    \A i \in DOMAIN w.clients[ch] : cap \in w.rcc[w.clients[ch][i]].common_caps

\* faulty variant: TRUE at the first channel-client that has the capability
red_channel_test_remote_cap_any(w, ch, cap) ==
    \E i \in DOMAIN w.clients[ch] : cap \in w.rcc[w.clients[ch][i]].caps

red_channel_test_remote_cap(w, ch, cap) ==
    \A i \in DOMAIN w.clients[ch] : cap \in w.rcc[w.clients[ch][i]].caps

\* pipe_size after the first i channel-clients of the list
red_channel_max_pipe_size(w, ch) ==
    LET list == w.clients[ch]
        pipe_size[i \in 0 .. Len(list)] ==
            IF i = 0 THEN 0
            ELSE LET new_size == Len(w.rcc[list[i]].pipe)
                 IN  IF pipe_size[i - 1] > new_size THEN pipe_size[i - 1] ELSE new_size
    IN  pipe_size[Len(list)]

\* ~0 is the largest uint32_t: -1 stands for it, and MIN takes the other
red_channel_min_pipe_size(w, ch) ==
    LET list == w.clients[ch]
        all_ones == -1
        pipe_size[i \in 0 .. Len(list)] ==
            IF i = 0 THEN all_ones
            ELSE LET new_size == Len(w.rcc[list[i]].pipe)
                 IN  IF pipe_size[i - 1] = all_ones THEN new_size
                     ELSE Min(pipe_size[i - 1], new_size)
    IN  IF pipe_size[Len(list)] = all_ones THEN 0 ELSE pipe_size[Len(list)]

red_channel_sum_pipes_size(w, ch) ==
    LET list == w.clients[ch]
        sum[i \in 0 .. Len(list)] ==
            IF i = 0 THEN 0 ELSE sum[i - 1] + Len(w.rcc[list[i]].pipe)
    IN  sum[Len(list)]

red_client_ref(c) == [c EXCEPT !.refs = @ + 1]

\* faulty variant: the count is tested as it was before the decrement
g_atomic_int_dec_and_test_old(c) == [c |-> [c EXCEPT !.refs = @ - 1], zero |-> c.refs = 0]

\* the count after the decrement, and whether it is zero
g_atomic_int_dec_and_test(c) == [c |-> [c EXCEPT !.refs = @ - 1], zero |-> c.refs - 1 = 0]

\* pthread_mutex_destroy and free
red_client_free(c) == [c EXCEPT !.released = @ + 1]

red_client_unref(c) ==
    LET dec == g_atomic_int_dec_and_test(c)
    IN  IF dec.zero THEN red_client_free(dec.c) ELSE dec.c

\* the loop of red_client_destroy over the channel-clients of list
RECURSIVE red_client_destroy_loop(_, _)
red_client_destroy_loop(w, list) ==
    IF list = <<>> \/ w.c.aborted THEN w
    ELSE LET id == Head(list)
             Logged(v, call) == [v EXCEPT !.rcc[id].log = Append(@, call)]
             marked == Logged([w EXCEPT !.rcc[id].destroying = TRUE],
                              "red_channel_client_set_destroying")
             cut == red_channel_client_default_disconnect(
                        Logged(marked, "client_cbs.disconnect"), id)
         IN  IF cut.rcc[id].pipe # <<>> \/ cut.rcc[id].sending # <<>>
             THEN [cut EXCEPT !.c.aborted = TRUE]
             ELSE red_client_destroy_loop(
                      red_channel_client_destroy(
                          Logged(cut, "red_channel_client_destroy"), id),
                      Tail(list))

\* faulty variant: the reference is kept
red_client_destroy_kept(w) == red_client_destroy_loop(w, w.c.channels)

red_client_destroy(w) ==
    LET done == red_client_destroy_loop(w, w.c.channels)
    IN  IF done.c.aborted THEN done ELSE [done EXCEPT !.c = red_client_unref(@)]

(***************************************************************************)
(* A message comes in for a channel-client (red-channel.c:37-70): the      *)
(* dispatching code takes a reference, calls the handler of the channel,   *)
(* then release_recv_buf, and gives its reference up.  The handler may     *)
(* destroy or disconnect the channel-client or destroy the channel.        *)
(***************************************************************************)

\* what the handler of a message may do to the world
Handlers ==
    {"none", "red_channel_client_disconnect", "red_channel_client_destroy",
     "red_channel_destroy"}

\* the worlds handle_message or handle_parsed leaves
handle_message(w, id, handler) ==
    CASE handler = "none" -> {w}
      [] handler = "red_channel_client_disconnect" -> {red_channel_client_disconnect(w, id)}
      [] handler = "red_channel_client_destroy" -> {red_channel_client_destroy(w, id)}
      [] handler = "red_channel_destroy" -> red_channel_destroy(w, w.rcc[id].channel)

\* faulty variant: no reference is held across the handler
red_peer_handle_incoming_unheld(w, id, handler) ==
    {[w |-> handled,
      at_release |-> [refs |-> handled.rcc[id].refs, freed |-> handled.rcc[id].freed,
                      channel_freed |-> handled.rcc[id].channel \in handled.freed]] :
        handled \in handle_message(w, id, handler)}

\* the world after the message, and what release_recv_buf found when it was
\* called
red_peer_handle_incoming(w, id, handler) ==
    {[w |-> red_channel_client_unref(handled, id),
      at_release |-> [refs |-> handled.rcc[id].refs, freed |-> handled.rcc[id].freed,
                      channel_freed |-> handled.rcc[id].channel \in handled.freed]] :
        handled \in handle_message(red_channel_client_ref(w, id), id, handler)}

(***************************************************************************)
(* red_channel_wait_all_sent, red-channel.c:956-988.  A call keeps its     *)
(* channel, its timeout, end_time and the locals max_pipe_size and         *)
(* blocked; tested is the time at which the condition of the while was     *)
(* last evaluated and looped says whether the body has run.  The call      *)
(* sleeps in the body, so that each evaluation of the condition, with the  *)
(* body or the return that follows it, is a step of its own.               *)
(***************************************************************************)

\* lines 960-969: end_time (all ones, written -1, without a deadline) and
\* the first push
red_channel_wait_all_sent_enter(w, ch, timeout, now) ==
    {[w |-> pushed,
      call |-> [pc |-> "entered", ch |-> ch, timeout |-> timeout,
                end_time |-> IF timeout # -1 THEN now + timeout ELSE -1,
                max_pipe_size |-> 0, blocked |-> FALSE, tested |-> now,
                looped |-> FALSE, result |-> FALSE]] :
        pushed \in red_channel_push(w, ch)}

\* faulty variant: the blocked channel-clients are not looked at
red_channel_wait_all_sent_test_pipes(w, call, now) ==
    LET max_pipe_size == red_channel_max_pipe_size(w, call.ch)
    IN  [go |-> /\ max_pipe_size # 0
                /\ (call.timeout = -1 \/ now < call.end_time),
         call |-> [call EXCEPT !.max_pipe_size = max_pipe_size, !.tested = now]]

\* lines 970-972, evaluated at time now: blocked is assigned only when
\* max_pipe_size is 0
red_channel_wait_all_sent_test(w, call, now) ==
    LET max_pipe_size == red_channel_max_pipe_size(w, call.ch)
        blocked == IF max_pipe_size # 0 THEN call.blocked
                   ELSE red_channel_any_blocked(w, call.ch)
    IN  [go |-> /\ (max_pipe_size # 0 \/ blocked)
                /\ (call.timeout = -1 \/ now < call.end_time),
         call |-> [call EXCEPT !.max_pipe_size = max_pipe_size,
                               !.blocked = blocked,
                               !.tested = now]]

\* lines 973-977: the body of the while
red_channel_wait_all_sent_body(w, ch) ==
    UNION {UNION {red_channel_push(sent, ch) : sent \in red_channel_send(received, ch)} :
              received \in red_channel_receive(w, ch)}

\* lines 980-987
red_channel_wait_all_sent_return(w, call) ==
    IF call.max_pipe_size # 0 \/ call.blocked
    THEN [w |-> w, call |-> [call EXCEPT !.pc = "idle", !.result = FALSE]]
    ELSE IF ~red_channel_no_item_being_sent(w, call.ch)
    THEN [w |-> [w EXCEPT !.c.aborted = TRUE],
          call |-> [call EXCEPT !.pc = "idle", !.result = FALSE]]
    ELSE [w |-> w, call |-> [call EXCEPT !.pc = "idle", !.result = TRUE]]

(***************************************************************************)
(* The local capabilities of a channel, red-channel.c:473-494.  A vector   *)
(* of uint32_t words is a sequence (num_caps is its length, word n of the  *)
(* code is element n + 1) and a word is the set of the numbers of its bits *)
(* that are 1.                                                             *)
(***************************************************************************)

\* what the allocator may leave in a word it hands out
Garbage == {{}, 0 .. 31}

\* spice_renew: the words there are kept, the new ones hold anything
spice_renew(caps, num_caps) ==
    {caps \o new : new \in [1 .. num_caps - Len(caps) -> Garbage]}

\* memset(caps + from, 0, count * sizeof(uint32_t))
memset_zero(caps, from, count) ==
    [i \in 1 .. Len(caps) |-> IF i > from /\ i <= from + count THEN {} ELSE caps[i]]

\* faulty variant: the new words are not cleared
add_capability_unfilled(caps, cap) ==
    LET n == cap \div 32
        num_caps == IF Len(caps) > n + 1 THEN Len(caps) ELSE n + 1
    IN  {[renewed EXCEPT ![n + 1] = @ \cup {cap % 32}] :
            renewed \in spice_renew(caps, num_caps)}

add_capability(caps, cap) ==
    LET nbefore == Len(caps)
        n == cap \div 32
        num_caps == IF nbefore > n + 1 THEN nbefore ELSE n + 1
    IN  {[memset_zero(renewed, nbefore, num_caps - nbefore) EXCEPT
             ![n + 1] = @ \cup {cap % 32}] :
            renewed \in spice_renew(caps, num_caps)}

red_channel_set_common_cap(channel, cap) ==
    {[channel EXCEPT !.common_caps = caps] : caps \in add_capability(channel.common_caps, cap)}

red_channel_set_cap(channel, cap) ==
    {[channel EXCEPT !.caps = caps] : caps \in add_capability(channel.caps, cap)}

\* the local capabilities after g_object_new: zeroed private data, then
\* red_channel_init, red-channel.c:335-339
red_channel_init ==
    red_channel_set_common_cap([common_caps |-> <<>>, caps |-> <<>>],
                               SPICE_COMMON_CAP_MINI_HEADER)

(***************************************************************************)
(* red_channel_constructed, red-channel.c:222-245.  klass says which       *)
(* procedures the subclass provides; a failed spice_assert ends the        *)
(* process before the channel exists.                                      *)
(***************************************************************************)

\* spice/migration_protocol.h, used at red-channel.c:236
SPICE_MIGRATE_NEED_DATA_TRANSFER == 2

\* faulty variant: the migration flags are not looked at
red_channel_constructed_unflagged(klass, migration_flags) ==
    IF ~(/\ klass.config_socket /\ klass.on_disconnect
         /\ klass.alloc_recv_buf /\ klass.release_recv_buf)
    THEN [aborted |-> TRUE, incoming_cb |-> {}]
    ELSE [aborted |-> FALSE,
          incoming_cb |-> {"alloc_msg_buf", "release_msg_buf"}
                          \cup {p \in {"handle_message", "handle_parsed", "parser"} : klass[p]}]

red_channel_constructed(klass, migration_flags) ==
    IF ~(/\ klass.config_socket /\ klass.on_disconnect
         /\ klass.alloc_recv_buf /\ klass.release_recv_buf)
    THEN [aborted |-> TRUE, incoming_cb |-> {}]
    ELSE IF ~(\/ klass.handle_migrate_data
              \/ BitAnd(migration_flags, SPICE_MIGRATE_NEED_DATA_TRANSFER) = 0)
    THEN [aborted |-> TRUE, incoming_cb |-> {}]
    ELSE [aborted |-> FALSE,
          incoming_cb |-> {"alloc_msg_buf", "release_msg_buf"}
                          \cup {p \in {"handle_message", "handle_parsed", "parser"} : klass[p]}]

(***************************************************************************)
(* A server with the channels of Channels and one client.  client.w is the *)
(* world, client.op the latest call with its arguments when it is          *)
(* red_channel_pipes_add_type or red_client_destroy ("other" otherwise),   *)
(* client.items the number of red_channel_pipes_add_type calls made.       *)
(***************************************************************************)

\* channels without channel-clients, each with the reference of its
\* creation, and a new client
NewWorld ==
    [rcc |-> <<>>, clients |-> [ch \in Channels |-> <<>>], gone |-> {},
     chrefs |-> [ch \in Channels |-> 1], freed |-> {}, c |-> red_client_new(FALSE)]

InitChannel ==
    /\ ws = NewWs
    /\ io = NewIo
    /\ last = NoCall
    /\ rt = Idle
    /\ hs = Idle
    /\ client = [phase |-> "channels",
                 w |-> NewWorld,
                 op |-> [name |-> "red_client_new", ch |-> 0, type |-> 0],
                 items |-> 0]

\* the call of name leaves the world w
ChannelReturn(name, w) ==
    /\ client' = [client EXCEPT !.w = w, !.op = [name |-> name, ch |-> 0, type |-> 0]]
    /\ UNCHANGED <<ws, io, last, rt, hs>>

\* the world at a call: sent holds what the call hands to the streams
Called ==
    [client.w EXCEPT
        !.rcc = <<>> \o [id \in DOMAIN client.w.rcc |->
                          [client.w.rcc[id] EXCEPT !.sent = <<>>]]]

\* the channel and the client are there to be called
Live(ch) ==
    /\ ch \notin client.w.gone
    /\ ~client.w.c.aborted
    /\ client.w.c.released = 0

\* a channel-client of the client, with remote capabilities of capsets, is
\* made for a channel ch of chs and added to both
ConnectOn(chs, capsets) ==
    \E ch \in chs, caps \in capsets :
        /\ Live(ch)
        /\ Len(client.w.rcc) < MaxRccs
        /\ LET id == Len(client.w.rcc) + 1
               made == [Called EXCEPT
                           !.rcc = Append(@, red_channel_client_new(ch, {0, 1} \ caps, caps)),
                           !.chrefs[ch] = @ + 1]
               added == red_channel_add_client(made, ch, id)
           IN  ChannelReturn("other",
                             [added EXCEPT !.c = red_client_add_channel(@, id)])

Connect == ConnectOn(Channels, {{0, 1}})

ConnectCaps == ConnectOn(Channels, {{0}, {1}, {0, 1}})

RemoveClient ==
    \E ch \in Channels, id \in DOMAIN client.w.rcc :
        /\ Live(ch)
        /\ ChannelReturn("other",
                         red_channel_remove_client(Called, ch, id))

ChannelDisconnect ==
    \E ch \in Channels :
        /\ Live(ch)
        /\ \E w \in red_channel_disconnect(Called, ch) :
              ChannelReturn("other", w)

ChannelDestroy ==
    \E ch \in Channels :
        /\ Live(ch)
        /\ \E w \in red_channel_destroy(Called, ch) :
              ChannelReturn("other", w)

ChannelSend ==
    \E ch \in Channels :
        /\ Live(ch)
        /\ \E w \in red_channel_send(Called, ch) :
              ChannelReturn("other", w)

ChannelPush ==
    \E ch \in Channels :
        /\ Live(ch)
        /\ \E w \in red_channel_push(Called, ch) :
              ChannelReturn("other", w)

\* red_channel_pipes_add_type followed by red_channel_push
PipesAddTypeOf(chs, types) ==
    \E ch \in chs, type \in types :
        /\ Live(ch)
        /\ client.items < MaxItems
        /\ \E added \in red_channel_pipes_add_type(Called, ch, type) :
              \E w \in red_channel_push(added, ch) :
                  /\ client' = [client EXCEPT
                                   !.w = w,
                                   !.items = @ + 1,
                                   !.op = [name |-> "red_channel_pipes_add_type",
                                           ch |-> ch, type |-> type]]
                  /\ UNCHANGED <<ws, io, last, rt, hs>>

PipesAddType == PipesAddTypeOf(Channels, {1, 2})

ClientRef ==
    /\ ~client.w.c.aborted
    /\ client.w.c.released = 0
    /\ client.w.c.refs < MaxRefs
    /\ ChannelReturn("other", [Called EXCEPT !.c = red_client_ref(@)])

ClientDestroy ==
    /\ ~client.w.c.aborted
    /\ client.w.c.released = 0
    /\ ChannelReturn("red_client_destroy", red_client_destroy(Called))

NextChannel ==
    \/ Connect
    \/ RemoveClient
    \/ ChannelDisconnect
    \/ ChannelDestroy
    \/ ChannelSend
    \/ ChannelPush
    \/ PipesAddType

SpecChannel == InitChannel /\ [][NextChannel]_vars

NextCaps ==
    \/ ConnectCaps
    \/ RemoveClient
    \/ ChannelDisconnect
    \/ ChannelDestroy

SpecCaps == InitChannel /\ [][NextCaps]_vars

(***************************************************************************)
(* The client's reference count: red-channel.c:680-710.  Threads hold      *)
(* references (held); a thread that holds one may take another, for itself *)
(* or for another thread, and may give one up.  red_client_unref is two    *)
(* steps: the atomic decrement and test, then, for the thread that found   *)
(* zero (zero), the release.  taken and dropped count the calls.           *)
(***************************************************************************)
InitRef ==
    /\ ws = NewWs
    /\ io = NewIo
    /\ last = NoCall
    /\ rt = Idle
    /\ hs = Idle
    /\ \E migrated \in BOOLEAN, owner \in Threads :
          client = [phase |-> "refs", c |-> red_client_new(migrated),
                    held |-> [t \in Threads |-> IF t = owner THEN 1 ELSE 0],
                    zero |-> [t \in Threads |-> FALSE],
                    taken |-> 0, dropped |-> 0]

RefCall ==
    /\ client.taken < MaxTaken
    /\ \E t, for \in Threads :
          /\ client.held[t] >= 1
          /\ client' = [client EXCEPT !.c = red_client_ref(@),
                                      !.held[for] = @ + 1,
                                      !.taken = @ + 1]
    /\ UNCHANGED <<ws, io, last, rt, hs>>

\* g_atomic_int_dec_and_test of red_client_unref
UnrefCall ==
    /\ \E t \in Threads :
          /\ client.held[t] >= 1
          /\ LET dec == g_atomic_int_dec_and_test(client.c)
             IN  client' = [client EXCEPT !.c = dec.c,
                                         !.held[t] = @ - 1,
                                         !.zero[t] = dec.zero,
                                         !.dropped = @ + 1]
    /\ UNCHANGED <<ws, io, last, rt, hs>>

\* the thread that found zero destroys the mutex and frees the client
UnrefRelease ==
    /\ \E t \in Threads :
          /\ client.zero[t]
          /\ client' = [client EXCEPT !.c = red_client_free(@), !.zero[t] = FALSE]
    /\ UNCHANGED <<ws, io, last, rt, hs>>

NextRef ==
    \/ RefCall
    \/ UnrefCall
    \/ UnrefRelease

SpecRef == InitRef /\ [][NextRef]_vars

NextDestroy ==
    \/ Connect
    \/ PipesAddType
    \/ ChannelSend
    \/ ChannelDisconnect
    \/ ClientRef
    \/ ClientDestroy

SpecDestroy == InitChannel /\ [][NextDestroy]_vars

(***************************************************************************)
(* red_channel_wait_all_sent at work: the thread of channel 1 makes         *)
(* channel-clients, adds items and waits.  client.now is the monotonic     *)
(* time, client.call the call of red_channel_wait_all_sent in progress or  *)
(* the latest one that returned.                                           *)
(***************************************************************************)
Timeouts == {-1} \cup (0 .. MaxTime)

InitWait ==
    /\ ws = NewWs
    /\ io = NewIo
    /\ last = NoCall
    /\ rt = Idle
    /\ hs = Idle
    /\ client = [phase |-> "wait",
                 w |-> NewWorld,
                 op |-> [name |-> "red_client_new", ch |-> 0, type |-> 0],
                 items |-> 0,
                 now |-> 0,
                 call |-> [pc |-> "idle"]]

\* no call of red_channel_wait_all_sent is in progress
WaitIdle == client.call.pc = "idle"

WaitAllSent ==
    \E ch \in {1}, timeout \in Timeouts :
        /\ WaitIdle
        /\ Live(ch)
        /\ client.now + timeout <= MaxTime
        /\ \E e \in red_channel_wait_all_sent_enter(Called, ch, timeout, client.now) :
              /\ client' = [client EXCEPT !.w = e.w, !.call = e.call,
                                          !.op = [name |-> "other", ch |-> 0, type |-> 0]]
              /\ UNCHANGED <<ws, io, last, rt, hs>>

\* the condition of the while is evaluated, then the body runs or the
\* call returns
WaitTest ==
    \E now \in client.now .. Min(client.now + 1, MaxTime) :
        /\ ~WaitIdle
        /\ LET t == red_channel_wait_all_sent_test(client.w, client.call, now)
               r == red_channel_wait_all_sent_return(client.w, t.call)
           IN  /\ IF t.go
                  THEN \E w \in red_channel_wait_all_sent_body(client.w, t.call.ch) :
                          client' = [client EXCEPT
                                        !.w = w,
                                        !.now = now,
                                        !.call = [t.call EXCEPT !.pc = "looped",
                                                                !.looped = TRUE]]
                  ELSE client' = [client EXCEPT
                                     !.w = r.w,
                                     !.now = now,
                                     !.call = r.call,
                                     !.op = [name |-> "red_channel_wait_all_sent",
                                             ch |-> r.call.ch, type |-> 0]]
               /\ UNCHANGED <<ws, io, last, rt, hs>>

NextWait ==
    \/ WaitIdle /\ ConnectOn({1}, {{0, 1}})
    \/ WaitIdle /\ PipesAddTypeOf({1}, {1})
    \/ WaitAllSent
    \/ WaitTest

SpecWait == InitWait /\ [][NextWait]_vars

(***************************************************************************)
(* A channel whose capabilities are set.  client.channel holds the two     *)
(* vectors, client.set the capabilities that were set on each.             *)
(***************************************************************************)
CapInputs ==
    {0, 31} \cup {32 * word + bit : word \in 1 .. MaxCapWord, bit \in {0, 31}}

InitLocalCaps ==
    /\ ws = NewWs
    /\ io = NewIo
    /\ last = NoCall
    /\ rt = Idle
    /\ hs = Idle
    /\ \E channel \in red_channel_init :
          client = [phase |-> "local_caps",
                    channel |-> channel,
                    set |-> [common_caps |-> {SPICE_COMMON_CAP_MINI_HEADER}, caps |-> {}]]

SetCommonCap ==
    \E cap \in CapInputs :
      \E channel \in red_channel_set_common_cap(client.channel, cap) :
        /\ client' = [client EXCEPT !.channel = channel,
                                    !.set.common_caps = @ \cup {cap}]
        /\ UNCHANGED <<ws, io, last, rt, hs>>

SetCap ==
    \E cap \in CapInputs :
      \E channel \in red_channel_set_cap(client.channel, cap) :
        /\ client' = [client EXCEPT !.channel = channel,
                                    !.set.caps = @ \cup {cap}]
        /\ UNCHANGED <<ws, io, last, rt, hs>>

NextLocalCaps ==
    \/ SetCommonCap
    \/ SetCap

SpecLocalCaps == InitLocalCaps /\ [][NextLocalCaps]_vars

(***************************************************************************)
(* A channel of some subclass is constructed.  client.klass and            *)
(* client.migration_flags are the configuration, client.made the outcome   *)
(* of red_channel_constructed once it has run.                             *)
(***************************************************************************)
Procs ==
    {"config_socket", "on_disconnect", "alloc_recv_buf", "release_recv_buf",
     "handle_migrate_data", "handle_message", "handle_parsed", "parser"}

\* the subclasses, by what they provide
Klasses == [Procs -> BOOLEAN]

InitConstruct ==
    /\ ws = NewWs
    /\ io = NewIo
    /\ last = NoCall
    /\ rt = Idle
    /\ hs = Idle
    /\ \E klass \in Klasses, migration_flags \in 0 .. MaxFlags :
          client = [phase |-> "construct", klass |-> klass,
                    migration_flags |-> migration_flags,
                    made |-> [pc |-> "g_object_new"]]

Constructed ==
    /\ client.made.pc = "g_object_new"
    /\ LET out == red_channel_constructed(client.klass, client.migration_flags)
       IN  client' = [client EXCEPT !.made = [pc |-> "constructed",
                                              aborted |-> out.aborted,
                                              incoming_cb |-> out.incoming_cb]]
    /\ UNCHANGED <<ws, io, last, rt, hs>>

NextConstruct == Constructed

SpecConstruct == InitConstruct /\ [][NextConstruct]_vars

(***************************************************************************)
(* Messages come in for the channel-clients of a server.  client.op is the *)
(* latest call; for a message it holds the channel-client, what the        *)
(* handler did and what release_recv_buf found.                            *)
(***************************************************************************)
InitIncoming ==
    /\ ws = NewWs
    /\ io = NewIo
    /\ last = NoCall
    /\ rt = Idle
    /\ hs = Idle
    /\ client = [phase |-> "incoming",
                 w |-> NewWorld,
                 op |-> [name |-> "red_client_new", ch |-> 0, type |-> 0],
                 items |-> 0]

\* a message for a connected channel-client
Incoming ==
    \E id \in DOMAIN client.w.rcc, handler \in Handlers :
        /\ client.w.rcc[id].connected
        /\ ~client.w.rcc[id].freed
        /\ \E r \in red_peer_handle_incoming(Called, id, handler) :
              /\ client' = [client EXCEPT
                               !.w = r.w,
                               !.op = [name |-> "red_peer_handle_incoming", ch |-> 0,
                                       type |-> 0, id |-> id, handler |-> handler,
                                       at_release |-> r.at_release]]
              /\ UNCHANGED <<ws, io, last, rt, hs>>

NextIncoming ==
    \/ Connect
    \/ PipesAddType
    \/ ChannelDestroy
    \/ Incoming

SpecIncoming == InitIncoming /\ [][NextIncoming]_vars

(***************************************************************************)
(* red_channel_remove_client called from any thread                        *)
(***************************************************************************)

\* the threads that call into a channel: 1 constructs every channel
ChannelThreads == {1, 2}

\* channel->priv->thread_id, set when the channel is initialised
thread_id == [ch \in Channels |-> 1]

\* the warning of red_channel_remove_client
remove_client_warns(ch, self) == self # thread_id[ch]

InitRemove ==
    /\ ws = NewWs
    /\ io = NewIo
    /\ last = NoCall
    /\ rt = Idle
    /\ hs = Idle
    /\ client = [phase |-> "remove",
                 w |-> NewWorld,
                 op |-> [name |-> "red_client_new", ch |-> 0, type |-> 0],
                 items |-> 0]

\* red_channel_remove_client(channel, rcc) on thread self
RemoveClientOn ==
    \E ch \in Channels, id \in DOMAIN client.w.rcc, self \in ChannelThreads :
        /\ Live(ch)
        /\ client' = [client EXCEPT
                         !.w = red_channel_remove_client(Called, ch, id),
                         !.op = [name |-> "red_channel_remove_client", ch |-> ch,
                                 type |-> 0, rcc |-> id, self |-> self,
                                 warned |-> remove_client_warns(ch, self)]]
        /\ UNCHANGED <<ws, io, last, rt, hs>>

NextRemove ==
    \/ Connect
    \/ PipesAddType
    \/ ChannelDisconnect
    \/ RemoveClientOn

SpecRemove == InitRemove /\ [][NextRemove]_vars

(***************************************************************************)
(* red_channel_pipes_new_add, _add_tail and _add_push                      *)
(***************************************************************************)

\* the indices a creator can be given
Indices == 0 .. MaxRccs - 1

BatchCalls ==
    {"red_channel_pipes_new_add", "red_channel_pipes_new_add_tail",
     "red_channel_pipes_new_add_push"}

call_batch(w, ch, data, name) ==
    CASE name = "red_channel_pipes_new_add" -> red_channel_pipes_new_add(w, ch, data)
      [] name = "red_channel_pipes_new_add_tail" ->
             red_channel_pipes_new_add_tail(w, ch, data)
      [] name = "red_channel_pipes_new_add_push" ->
             red_channel_pipes_new_add_push(w, ch, data)

InitBatch ==
    /\ ws = NewWs
    /\ io = NewIo
    /\ last = NoCall
    /\ rt = Idle
    /\ hs = Idle
    /\ client = [phase |-> "batch",
                 w |-> NewWorld,
                 op |-> [name |-> "red_client_new", ch |-> 0, type |-> 0],
                 items |-> 0]

\* one of the three calls, with a creator that makes items for the indices
\* of data
PipesNewAdd ==
    \E ch \in {1}, name \in BatchCalls, data \in SUBSET Indices :
        /\ Live(ch)
        /\ client.items < MaxItems
        /\ \E o \in call_batch(Called, ch, data, name) :
              /\ client' = [client EXCEPT
                               !.w = o.w,
                               !.items = @ + 1,
                               !.op = [name |-> name, ch |-> ch, type |-> NewItem,
                                       data |-> data, ret |-> o.ret,
                                       calls |-> o.calls]]
              /\ UNCHANGED <<ws, io, last, rt, hs>>

NextBatch ==
    \/ Connect
    \/ ChannelDisconnect
    \/ ChannelSend
    \/ PipesNewAdd

SpecBatch == InitBatch /\ [][NextBatch]_vars

(***************************************************************************)
(* A client on the target of a seamless migration.  client.track runs      *)
(* along client.c.channels and holds, for each channel-client of the list, *)
(* whether it was counted in num_migrated_channels and whether it has      *)
(* called red_client_seamless_migration_done_for_channel; client.lost is   *)
(* the number of channel-clients removed while counted and before they     *)
(* called it, client.counted the number ever counted.                      *)
(***************************************************************************)
InitMig ==
    /\ ws = NewWs
    /\ io = NewIo
    /\ last = NoCall
    /\ rt = Idle
    /\ hs = Idle
    /\ client = [phase |-> "migrate", c |-> red_client_new(TRUE), track |-> <<>>,
                 counted |-> 0, lost |-> 0, added |-> 0,
                 op |-> "red_client_new"]

\* red_client_add_channel for a channel-client that accepts the seamless
\* mode or does not
MigAdd ==
    /\ client.added < MaxChannels
    /\ \E rcc \in BOOLEAN :
          LET c == red_client_add_channel(client.c, rcc)
              n == c.num_migrated_channels - client.c.num_migrated_channels
          IN  client' = [client EXCEPT
                            !.c = c,
                            !.track = <<[counted |-> n = 1, reported |-> FALSE]>> \o @,
                            !.counted = @ + n,
                            !.added = @ + 1,
                            !.op = "red_client_add_channel"]
    /\ UNCHANGED <<ws, io, last, rt, hs>>

\* red_client_set_migration_seamless, called once on the target
MigSet ==
    /\ client.c.during_target_migrate
    /\ ~client.c.seamless_migrate
    /\ client.c.notified = 0
    /\ LET c == red_client_set_migration_seamless(client.c)
       IN  client' = [client EXCEPT
                         !.c = c,
                         !.track = <<>> \o [i \in DOMAIN c.channels |->
                                      [counted |-> red_channel_client_set_migration_seamless(
                                                       c.channels[i]),
                                       reported |-> FALSE]],
                         !.counted = @ + c.num_migrated_channels
                                       - client.c.num_migrated_channels,
                         !.op = "red_client_set_migration_seamless"]
    /\ UNCHANGED <<ws, io, last, rt, hs>>

\* red_client_remove_channel for a channel-client of the list
MigRemove ==
    /\ \E i \in DOMAIN client.c.channels :
          client' = [client EXCEPT
                        !.c = red_client_remove_channel(client.c, i),
                        !.track = SubSeq(@, 1, i - 1) \o SubSeq(@, i + 1, Len(@)),
                        !.lost = @ + (IF client.track[i].counted
                                         /\ ~client.track[i].reported
                                      THEN 1 ELSE 0),
                        !.op = "red_client_remove_channel"]
    /\ UNCHANGED <<ws, io, last, rt, hs>>

\* a counted channel-client of the list calls
\* red_client_seamless_migration_done_for_channel, once
MigDone ==
    /\ \E i \in DOMAIN client.track :
          /\ client.track[i].counted
          /\ ~client.track[i].reported
          /\ client' = [client EXCEPT
                           !.c = red_client_seamless_migration_done_for_channel(client.c).c,
                           !.track[i].reported = TRUE,
                           !.op = "red_client_seamless_migration_done_for_channel"]
    /\ UNCHANGED <<ws, io, last, rt, hs>>

NextMig ==
    \/ MigAdd
    \/ MigSet
    \/ MigRemove
    \/ MigDone

SpecMig == InitMig /\ [][NextMig]_vars

\* every channel-client that has to call
\* red_client_seamless_migration_done_for_channel does so in the end
LiveMig == SpecMig /\ WF_vars(MigDone)

(***************************************************************************)
(* Properties of the connection.                                           *)
(***************************************************************************)
Hdr(bytes) == [i \in 1..Len(bytes) |-> [t |-> "h", v |-> bytes[i]]]

\* the close acknowledgement on the wire
AckBytes == Hdr(<<136, 0>>)

IsPrefix(p, q) == Len(p) <= Len(q) /\ SubSeq(q, 1, Len(p)) = p

\* neither a header residue nor a body remainder is owed to the peer
NoPending(w) == w.write_remainder = 0 /\ w.write_header_pos >= w.write_header_len

\* out, from item i on, is a prefix of a concatenation of data frames: each
\* header is 0x82, an unmasked length field and its extension, in full and
\* in order, and is followed by exactly the declared number of body bytes
RECURSIVE FramedFrom(_, _)
FramedFrom(out, i) ==
    IF i > Len(out) THEN TRUE
    ELSE /\ out[i] = [t |-> "h", v |-> 130]
         /\ \/ i + 1 > Len(out)
            \/ /\ out[i + 1].t = "h"
               /\ out[i + 1].v < 128
               /\ LET lf == out[i + 1].v
                      hl == 2 + (IF lf = 127 THEN 8 ELSE IF lf = 126 THEN 2 ELSE 0)
                      last_h == Min(i + hl - 1, Len(out))
                  IN  /\ \A j \in (i + 2)..last_h : out[j].t = "h"
                      /\ \/ i + hl - 1 >= Len(out)
                         \/ LET L == IF lf = 126 THEN out[i + 2].v * 256 + out[i + 3].v
                                     ELSE IF lf = 127
                                     THEN U64ToNat([k \in 1..8 |-> out[i + 1 + k].v])
                                     ELSE lf
                                b == out[i + hl]
                            IN  IF L = 0 THEN FramedFrom(out, i + hl)
                                ELSE /\ b.t = "b"
                                     /\ b.v <= L
                                     /\ b.v < L => i + hl = Len(out)
                                     /\ FramedFrom(out, i + hl + 1)

\* C1: on a connection that is only written to, the bytes emitted on the raw
\* stream are always a prefix of a concatenation of well-formed data frames:
\* every header complete and in order, followed by exactly its declared
\* number of body bytes before the next header.
C1_Framing == FramedFrom(io.out, 1)

\* C2: body bytes are owed only when the current header has been sent in
\* full: write_remainder > 0 implies write_header_pos = write_header_len.
C2_RemainderAfterHeader ==
    ws.write_remainder > 0 => ws.write_header_pos = ws.write_header_len

\* a websocket_read that met a CLOSE frame left body bytes owed, having
\* flushed the rest of a header
C2_Witness == ws.write_remainder > 0 /\ last.op = "read" /\ io.closeSeen

\* C3: once closed is set it stays set, every later websocket_read returns 0
\* and every later websocket_write and websocket_writev fails with EPIPE.
C3_ClosedIsFinal ==
    [][ws.closed =>
          /\ ws'.closed
          /\ last'.op = "read" => last'.rc = 0
          /\ last'.op \in {"write", "writev"} => last'.rc = -1 /\ last'.errno = EPIPE]_vars

\* a websocket_writev on a closed connection has failed with EPIPE after
\* the close acknowledgement went out
C3_Witness ==
    /\ ws.closed
    /\ last.op = "writev"
    /\ last.errno = EPIPE
    /\ io.out = AckBytes

\* the step is a websocket_read that meets a CLOSE frame
ReadsClose == last'.op = "read" /\ io'.closeSeen /\ ~io.closeSeen

\* the step is a write call that finds the close acknowledgement due
WritesAck ==
    /\ last'.op \in {"write", "writev"}
    /\ ws.close_pending
    /\ ~ws.closed
    /\ NoPending(ws)

\* C4 as stated: a websocket_read that receives a CLOSE frame with nothing
\* outbound pending returns 0 and leaves close-pending set without emitting
\* anything, and the next write call emits exactly 88 00 and closes.
C4_AckByNextWrite ==
    [][/\ ReadsClose /\ NoPending(ws) =>
             last'.rc = 0 /\ ws'.close_pending /\ io'.out = io.out
       /\ WritesAck => io'.out = io.out \o AckBytes /\ ws'.closed]_vars

\* C4, amended: a websocket_read that receives a CLOSE frame with nothing
\* outbound pending returns 0 and attempts the acknowledgement itself: either
\* the raw write takes both bytes, 88 00 is emitted by the read and the
\* connection is closed with close-pending clear, or it is not closed,
\* close-pending stays set and at most the byte 88 was emitted.  A write call
\* that finds the acknowledgement due starts by writing 88 00 and closes the
\* connection exactly when the raw write takes both bytes.
C4_AckByReadOrWrite ==
    [][/\ ReadsClose /\ NoPending(ws) =>
             /\ last'.rc = 0
             /\ \/ /\ ws'.closed
                   /\ ~ws'.close_pending
                   /\ io'.out = io.out \o AckBytes
                \/ /\ ~ws'.closed
                   /\ ws'.close_pending
                   /\ io'.out \in {io.out, io.out \o Hdr(<<136>>)}
       /\ WritesAck =>
             /\ ws'.closed <=> IsPrefix(io.out \o AckBytes, io'.out)
             /\ ws'.closed => ~ws'.close_pending
             /\ ~ws'.closed => ws'.close_pending]_vars

\* the websocket_read that met the CLOSE frame has sent 88 00 and closed
C4_Witness ==
    /\ last.op = "read"
    /\ last.rc = 0
    /\ io.closeSeen
    /\ ws.closed
    /\ io.out = AckBytes

\* the payload of the masked binary frame b as RFC 6455 defines it: byte i
\* of the payload is masked byte i XOR mask[i mod 4], counting from 0
Unmasked(b) == [i \in 1..(Len(b) - 6) |-> BitXor(b[6 + i], b[3 + ((i - 1) % 4)])]

\* a final binary frame, masked, with a payload of 1 to 125 bytes
IsMaskedBinary(b) == b[1] = 130 /\ b[2] > 128 /\ b[2] < 128 + 126

\* the payloads of the masked binary frames that lead the frames sent
RECURSIVE LeadingPayload(_)
LeadingPayload(sent) ==
    IF sent = <<>> \/ ~IsMaskedBinary(Frames[Head(sent)]) THEN <<>>
    ELSE Unmasked(Frames[Head(sent)]) \o LeadingPayload(Tail(sent))

\* C5: whatever the split into calls and raw reads, the bytes delivered for
\* masked binary frames are the masked bytes XOR mask[i mod 4] counted from
\* the start of each frame; 82 85 37 fa 21 3d 7f 9f 4d 51 58 decodes to
\* "Hello", leaving the frame cleared and the connection open.
C5_MaskedRead ==
    /\ LET D == LeadingPayload(io.sent)
       IN  \A i \in 1..Min(Len(D), Len(io.delivered)) : io.delivered[i] = D[i]
    /\ io.sent = <<"hello">> /\ Len(io.delivered) = 5 /\ ~io.eof =>
          /\ io.delivered = <<72, 101, 108, 108, 111>>
          /\ ws.read_frame = websocket_clear_frame
          /\ ~ws.closed

\* "Hello" is delivered in full and the last call delivered its fifth byte
\* alone, the frame having been split behind the fourth
C5_Witness ==
    /\ io.sent = <<"hello">>
    /\ io.delivered = <<72, 101, 108, 108, 111>>
    /\ last.op = "read"
    /\ last.rc = 1

\* the length of the header of the frame b
HeaderLen(b) ==
    2 + (IF b[2] % 128 = 127 THEN 8 ELSE IF b[2] % 128 = 126 THEN 2 ELSE 0)
      + (IF b[2] >= 128 THEN 4 ELSE 0)

\* the header of b declares a payload of 126 bytes or more
LongPayload(b) ==
    \/ b[2] % 128 = 126 /\ b[3] * 256 + b[4] >= 126
    \/ b[2] % 128 = 127 /\ ((\E k \in 3..9 : b[k] # 0) \/ b[10] >= 126)

\* the header of b has a reserved bit set, or is a control frame without
\* FIN, or has a data opcode in 3..7, or is a control frame declaring 126
\* bytes or more
Malformed(b) ==
    LET opcode == b[1] % 16
    IN  \/ (b[1] \div 16) % 8 # 0
        \/ opcode >= 8 /\ b[1] < 128
        \/ opcode \in 3..7
        \/ opcode >= 8 /\ LongPayload(b)

\* the frame being received and how many of its bytes the raw reads have
\* taken (the peer sends a frame when the ones before have been read)
CurrentFrame(i) == Frames[i.sent[Len(i.sent)]]

Taken(i) == Len(CurrentFrame(i)) - Len(i.rawIn)

\* the step is a websocket_read on an open connection that takes the last
\* byte of the header of the frame being received
CompletesHeader ==
    /\ last'.op = "read"
    /\ io.sent # <<>>
    /\ io'.sent = io.sent
    /\ ~ws.closed
    /\ ~ws.close_pending
    /\ \A k \in 1..(Len(io.sent) - 1) : io.sent[k] = "hello"
    /\ Taken(io) < HeaderLen(CurrentFrame(io))
    /\ Taken(io') >= HeaderLen(CurrentFrame(io))

\* C6: a websocket_read that completes a malformed frame header fails with
\* EIO and marks the connection closed.
C6_MalformedHeaderFails ==
    [][CompletesHeader /\ Malformed(CurrentFrame(io)) =>
          last'.rc = -1 /\ last'.errno = EIO /\ ws'.closed]_vars

\* C7: no call sets closed right after a raw transfer that failed with
\* EAGAIN or EINTR or that was short, and a call that fails on an open
\* connection signals retry.
C7_TransientIoKeepsOpen ==
    /\ last.closedAfter \notin {"again", "short"}
    /\ last.op # "none" /\ last.rc = -1 /\ ~ws.closed => last.errno \in {EAGAIN, EINTR}

\* a websocket_read took one byte of a header, was interrupted, and the
\* connection is open
C7_Witness ==
    /\ last.op = "read"
    /\ last.rc = -1
    /\ last.errno = EINTR
    /\ ws.read_frame.header_pos = 1
    /\ ~ws.closed

(***************************************************************************)
(* Properties of the length encoding, the handshake and the migration.     *)
(***************************************************************************)
\* the lengths 0, 1, 125, 126, 65535, 65536, 2^32 and 2^40
ListedLengths ==
    {NatToU64(n) : n \in {0, 1, 125, 126, 65535, 65536}} \cup {OneByte(4, 1), OneByte(3, 1)}

\* the size RFC 6455 gives the header of an unmasked frame of len bytes
RfcHeaderSize(len) ==
    IF U64Gt65535(len) THEN 10 ELSE IF U64ToNat(len) >= 126 THEN 4 ELSE 2

\* C8: for each of the listed lengths L, extract_length on the header that
\* fill_header(L) wrote returns L, and fill_header returns the header size
\* of RFC 6455 (2, 4 or 10 bytes).
C8_HeaderRoundTrip ==
    rt.phase = "extracted" /\ rt.len \in ListedLengths =>
        /\ rt.outlen = rt.len
        /\ rt.xused = rt.used
        /\ rt.used = RfcHeaderSize(rt.len)

\* v without the spaces at its ends
RECURSIVE StripSpaces(_)
StripSpaces(v) ==
    IF v # <<>> /\ Head(v) = " " THEN StripSpaces(Tail(v))
    ELSE IF v # <<>> /\ v[Len(v)] = " " THEN StripSpaces(SubSeq(v, 1, Len(v) - 1))
    ELSE v

\* the request starts with "GET ", has both headers, the protocol value is
\* "binary" between spaces, and the empty line ends it
WellFormed(req) ==
    /\ req.line = "GET"
    /\ req.key # "none"
    /\ req.proto # "none"
    /\ StripSpaces(ProtocolValues[req.value]) = Binary
    /\ req.ending = "crlf"

\* C9: websocket_new returns a handle only for a buffer that begins with
\* "GET ", has a Sec-WebSocket-Key header and a Sec-WebSocket-Protocol
\* header whose value is exactly "binary" once the spaces around it are
\* stripped, and ends with \r\n\r\n.
C9_HandleOnlyIfWellFormed ==
    hs.phase = "done" /\ hs.handle => hs.buf = Text(hs.req) /\ WellFormed(hs.req)

\* C10: while channel-clients were counted and no done call was made with
\* none outstanding, the notification count is 0, both flags are set and
\* the done calls returned false as long as fewer done calls than counted
\* channel-clients were made; once as many were made the count is 1, that
\* call returned true, both flags are cleared and the counter is 0.
C10_NotifiedOnceAtLastDone ==
    client.counted >= 1 /\ ~client.misuse =>
        IF client.done < client.counted
        THEN /\ client.c.notified = 0
             /\ client.c.during_target_migrate
             /\ client.c.seamless_migrate
             /\ client.done >= 1 => client.ret = FALSE
        ELSE /\ client.c.notified = 1
             /\ client.ret = TRUE
             /\ ~client.c.during_target_migrate
             /\ ~client.c.seamless_migrate
             /\ client.c.num_migrated_channels = 0

\* three channel-clients were counted and the third done call has been made
C10_Witness ==
    /\ client.counted = 3
    /\ client.done = 3
    /\ ~client.misuse
    /\ client.c.notified = 1
    /\ client.ret = TRUE

\* C11: num_migrated_channels is never negative, whatever sequence of
\* red_client_add_channel, red_client_remove_channel,
\* red_client_set_migration_seamless,
\* red_client_seamless_migration_done_for_channel and
\* red_client_semi_seamless_migrate_complete calls follows red_client_new.
C11_CounterNonNegative ==
    client.phase = "client" => client.c.num_migrated_channels >= 0

\* C12: seamless_migrate is set only while during_target_migrate is set.
C12_SeamlessImpliesDuring ==
    client.phase = "client" =>
        (client.c.seamless_migrate => client.c.during_target_migrate)

\* red_client_set_migration_seamless has set seamless_migrate on a client
\* that holds channel-clients, and a done call has been made since
C12_Witness ==
    /\ client.phase = "client"
    /\ client.c.seamless_migrate
    /\ client.c.during_target_migrate
    /\ client.sets >= 1
    /\ client.done >= 1
    /\ Len(client.c.channels) >= 1

InSemiSeamlessTarget(c) == c.during_target_migrate /\ ~c.seamless_migrate

\* C13: a red_client_semi_seamless_migrate_complete call on a client that is
\* not in SEMI_SEAMLESS_TARGET reports an error and returns: the process
\* goes on, both flags and the counter are as before, no channel-client's
\* semi_seamless_migration_complete is called, the server context is not
\* told, and the mutex is free at the return.
C13_MisuseOnlyReports ==
    [][client.phase = "client"
       /\ client'.op = "red_client_semi_seamless_migrate_complete"
       /\ ~InSemiSeamlessTarget(client.c)
       => /\ client'.c.errors = client.c.errors + 1
          /\ ~client'.c.aborted
          /\ client'.c.during_target_migrate = client.c.during_target_migrate
          /\ client'.c.seamless_migrate = client.c.seamless_migrate
          /\ client'.c.num_migrated_channels = client.c.num_migrated_channels
          /\ client'.c.semi_completed = client.c.semi_completed
          /\ client'.c.reds_notified = client.c.reds_notified
          /\ ~client'.c.lock]_vars

\* the call was made in SEAMLESS_TARGET on a client with channel-clients,
\* and once more in NONE
C13_Witness ==
    /\ client.phase = "client"
    /\ client.op = "red_client_semi_seamless_migrate_complete"
    /\ client.c.errors = 2
    /\ ~client.c.during_target_migrate
    /\ client.c.notified = 1
    /\ Len(client.c.channels) >= 1

\* thread t is about to read or write a field of the client
Accessing(t) ==
    /\ client.todo[t] # <<>>
    /\ Head(client.todo[t]).k \in {"read", "write"}

\* C14: a thread that is about to read or write the channels list, one of
\* the two migration flags or num_migrated_channels holds the client's
\* mutex.
C14_AccessUnderMutex ==
    client.phase = "threads" => \A t \in Threads : Accessing(t) => client.lock = t

\* the calls red_client_destroy makes for a channel-client, in their order
DestroyCalls ==
    <<"red_channel_client_set_destroying", "client_cbs.disconnect",
      "red_channel_client_destroy">>

\* C15: red_client_destroy makes, for every channel-client of the client's
\* channels list, the calls set_destroying, client_cbs.disconnect (once) and
\* red_channel_client_destroy in this order, the pipe being empty and
\* nothing being sent at the destroy; it then gives up exactly one reference
\* of the client, which is released when that was the only one.
C15_DestroyOrder ==
    [][client.phase = "channels" /\ client'.op.name = "red_client_destroy"
       => LET w == client.w
              v == client'.w
          IN  /\ \A id \in DOMAIN w.rcc :
                    IF g_list_find(w.c.channels, id) # 0
                    THEN /\ v.rcc[id].log = w.rcc[id].log \o DestroyCalls
                         /\ v.rcc[id].destroying
                         /\ v.rcc[id].destroyed
                         /\ v.rcc[id].pipe = <<>>
                         /\ v.rcc[id].sending = <<>>
                    ELSE v.rcc[id].log = w.rcc[id].log
              /\ ~v.c.aborted
              /\ v.c.refs = w.c.refs - 1
              /\ v.c.released = (IF w.c.refs = 1 THEN 1 ELSE 0)]_vars

\* a client with the constructor's reference and two channel-clients on
\* distinct channels has been destroyed
C15_Witness ==
    /\ client.phase = "channels"
    /\ client.op.name = "red_client_destroy"
    /\ Len(client.w.rcc) = 2
    /\ client.w.rcc[1].channel # client.w.rcc[2].channel
    /\ client.w.rcc[1].log = DestroyCalls
    /\ client.w.rcc[2].log = DestroyCalls
    /\ client.w.c.refs = 0
    /\ client.w.c.released = 1

\* the threads that found zero and have yet to release the client
Releasing == {t \in Threads : client.zero[t]}

\* C16: the count starts at 1 and is 1 plus the references taken minus those
\* given up; while it is positive the client is not released and no thread
\* is about to release it; once it is zero exactly one release is made or
\* about to be made, by the thread whose decrement found zero.
C16_ReleasedOnceAtZero ==
    client.phase = "refs" =>
        /\ client.c.refs = 1 + client.taken - client.dropped
        /\ client.c.refs >= 0
        /\ client.c.refs > 0 => client.c.released = 0 /\ Releasing = {}
        /\ client.c.refs = 0 => client.c.released + Cardinality(Releasing) = 1

\* references were taken for both threads, all were given up and the client
\* has been released
C16_Witness ==
    /\ client.phase = "refs"
    /\ client.taken >= 2
    /\ client.dropped = client.taken + 1
    /\ client.c.refs = 0
    /\ client.c.released = 1
    /\ Releasing = {}

C18_AllBlockedWhenEmpty ==
    client.phase = "channels" =>
        \A ch \in Channels :
            client.w.clients[ch] = <<>> => red_channel_all_blocked(client.w, ch)

\* C18, as the code has it: red_channel_all_blocked returns false on a
\* channel whose clients list is empty.
C18_NotAllBlockedWhenEmpty ==
    client.phase = "channels" =>
        \A ch \in Channels :
            client.w.clients[ch] = <<>> => ~red_channel_all_blocked(client.w, ch)

\* a channel has lost its channel-clients while the other channel holds only
\* blocked ones
C18_Witness ==
    /\ client.phase = "channels"
    /\ \E ch, other \in Channels :
          /\ client.w.clients[ch] = <<>>
          /\ \E id \in DOMAIN client.w.rcc : client.w.rcc[id].channel = ch
          /\ client.w.clients[other] # <<>>
          /\ red_channel_all_blocked(client.w, other)

\* the capabilities asked for; no channel-client has the last
Caps == {0, 1, 2}

\* C19: on a channel whose clients list is empty any_blocked is false,
\* no_item_being_sent is true, the minimal, maximal and summed pipe sizes
\* are 0, get_first_socket is -1, is_connected is false and both capability
\* tests are true for every capability; on a channel with channel-clients a
\* capability test is true exactly when every channel-client of the list
\* has the capability.
C19_Aggregates ==
    client.phase = "channels" =>
        \A ch \in Channels :
            LET w == client.w
                listed == {w.clients[ch][i] : i \in DOMAIN w.clients[ch]}
            IN  IF listed = {}
                THEN /\ ~red_channel_any_blocked(w, ch)
                     /\ red_channel_no_item_being_sent(w, ch)
                     /\ red_channel_min_pipe_size(w, ch) = 0
                     /\ red_channel_max_pipe_size(w, ch) = 0
                     /\ red_channel_sum_pipes_size(w, ch) = 0
                     /\ red_channel_get_first_socket(w, ch) = -1
                     /\ ~red_channel_is_connected(w, ch)
                     /\ \A cap \in Caps : /\ red_channel_test_remote_cap(w, ch, cap)
                                          /\ red_channel_test_remote_common_cap(w, ch, cap)
                ELSE \A cap \in Caps :
                        /\ red_channel_test_remote_cap(w, ch, cap)
                              <=> \A id \in listed : cap \in w.rcc[id].caps
                        /\ red_channel_test_remote_common_cap(w, ch, cap)
                              <=> \A id \in listed : cap \in w.rcc[id].common_caps

\* one channel is empty, the other holds two channel-clients that share one
\* capability and differ in another
C19_Witness ==
    /\ client.phase = "channels"
    /\ \E ch, other \in Channels :
          /\ client.w.clients[ch] = <<>>
          /\ Len(client.w.clients[other]) = 2
          /\ red_channel_test_remote_cap(client.w, other, 0)
          /\ ~red_channel_test_remote_cap(client.w, other, 1)
          /\ \E i \in DOMAIN client.w.clients[other] :
                1 \in client.w.rcc[client.w.clients[other][i]].caps

\* the items of a channel-client, oldest first
Items(rcc) == rcc.sent \o rcc.sending \o rcc.pipe

\* C20: red_channel_pipes_add_type(type) followed by red_channel_push adds
\* exactly one item of the type, after the items there already, for every
\* channel-client of the channel's clients list, and none for the others.
C20_OneItemPerClient ==
    [][client.phase = "channels" /\ client'.op.name = "red_channel_pipes_add_type"
       => LET w == client.w
              v == client'.w
              ch == client'.op.ch
          IN  \A id \in DOMAIN w.rcc :
                  Items(v.rcc[id]) =
                      w.rcc[id].sending \o w.rcc[id].pipe
                      \o (IF g_list_find(w.clients[ch], id) # 0
                          THEN <<client'.op.type>>
                          ELSE <<>>)]_vars

\* the call found one channel-client of the list with an item waiting and a
\* connected channel-client of the channel outside the list
C20_Witness ==
    /\ client.phase = "channels"
    /\ client.op.name = "red_channel_pipes_add_type"
    /\ \E listed, other \in DOMAIN client.w.rcc :
          /\ g_list_find(client.w.clients[client.op.ch], listed) # 0
          /\ Len(Items(client.w.rcc[listed])) >= 2
          /\ g_list_find(client.w.clients[client.op.ch], other) = 0
          /\ client.w.rcc[other].channel = client.op.ch
          /\ client.w.rcc[other].connected
          /\ Items(client.w.rcc[other]) = <<>>


(***************************************************************************)
(* red_channel_wait_all_sent                                               *)
(***************************************************************************)

\* the channel ch has work pending: a pipe that is not empty or a blocked
\* channel-client
Pending(ch) ==
    \/ \E i \in DOMAIN client.w.clients[ch] : client.w.rcc[client.w.clients[ch][i]].pipe # <<>>
    \/ \E i \in DOMAIN client.w.clients[ch] : client.w.rcc[client.w.clients[ch][i]].blocked

\* C21: red_channel_wait_all_sent returns success exactly when, at its last
\* evaluation, every pipe of the channel is empty and no channel-client is
\* blocked, and then no item is being sent; without a deadline (timeout -1)
\* it returns only success; with a deadline the body runs again only when
\* the time read was before it, so that a failure is returned at the first
\* evaluation at or after the deadline that finds work pending; the
\* assertion before the success never fails.
C21_WaitAllSent ==
    client.phase = "wait" =>
        /\ ~client.w.c.aborted
        /\ client.op.name = "red_channel_wait_all_sent" =>
              /\ client.call.result <=> ~Pending(client.call.ch)
              /\ client.call.result =>
                    \A i \in DOMAIN client.w.clients[client.call.ch] :
                        client.w.rcc[client.w.clients[client.call.ch][i]].sending = <<>>
              /\ client.call.timeout = -1 => client.call.result
              /\ ~client.call.result => client.call.tested >= client.call.end_time
        /\ client.call.pc = "looped" =>
              \/ client.call.timeout = -1
              \/ client.call.tested < client.call.end_time

\* a call without a deadline has run its body and returned success, with
\* items handed to a stream by it
C21_Witness ==
    /\ client.phase = "wait"
    /\ client.op.name = "red_channel_wait_all_sent"
    /\ client.call.timeout = -1
    /\ client.call.looped
    /\ client.call.result
    /\ \E i \in DOMAIN client.w.clients[client.call.ch] :
          client.w.rcc[client.w.clients[client.call.ch][i]].sent # <<>>


(***************************************************************************)
(* Local capabilities                                                      *)
(***************************************************************************)

\* the vector holds exactly the capabilities of set
HoldsExactly(caps, set) ==
    /\ Len(caps) = IF set = {} THEN 0
                   ELSE (CHOOSE c \in set : \A d \in set : d <= c) \div 32 + 1
    /\ \A n \in 1 .. Len(caps), bit \in 0 .. 31 :
          bit \in caps[n] <=> 32 * (n - 1) + bit \in set

\* C22: after any calls of red_channel_set_cap and red_channel_set_common_cap
\* each vector has max(cap / 32) + 1 words over the capabilities set on it
\* and bit cap % 32 of word cap / 32 is 1 exactly for those capabilities:
\* no bit is cleared, no vector shrinks and new words come zeroed.
C22_CapabilityVectors ==
    client.phase = "local_caps" =>
        /\ HoldsExactly(client.channel.common_caps, client.set.common_caps)
        /\ HoldsExactly(client.channel.caps, client.set.caps)

\* a vector of three words holds the capabilities 0, 32 and 95, the other
\* vector has grown to three words as well
C22_Witness ==
    /\ client.phase = "local_caps"
    /\ client.set.caps = {0, 95, 32}
    /\ client.channel.caps = <<{0}, {0}, {31}>>
    /\ Len(client.channel.common_caps) = 3


(***************************************************************************)
(* Channel construction                                                    *)
(***************************************************************************)

\* the subclass provides the four procedures every channel needs
HasRequired ==
    /\ client.klass.config_socket /\ client.klass.on_disconnect
    /\ client.klass.alloc_recv_buf /\ client.klass.release_recv_buf

\* migration_flags requests data transfer: the bit of value 2 is set
NeedsDataTransfer == (client.migration_flags \div 2) % 2 = 1

\* C23, as claimed: construction succeeds only if the four procedures are
\* provided and handle_migrate_data is provided if and only if
\* migration_flags requests data transfer.
C23_ConstructedIff ==
    (client.phase = "construct" /\ client.made.pc = "constructed") =>
        (~client.made.aborted =>
             /\ HasRequired
             /\ client.klass.handle_migrate_data <=> NeedsDataTransfer)

\* C23, amended: construction succeeds exactly if the four procedures are
\* provided and handle_migrate_data is provided whenever migration_flags
\* requests data transfer; every other configuration aborts it.
C23_ConstructedIf ==
    (client.phase = "construct" /\ client.made.pc = "constructed") =>
        (~client.made.aborted <=>
             /\ HasRequired
             /\ NeedsDataTransfer => client.klass.handle_migrate_data)

\* a channel that provides handle_migrate_data without requesting data
\* transfer has been constructed
C23_Witness ==
    /\ client.phase = "construct"
    /\ client.made.pc = "constructed"
    /\ ~client.made.aborted
    /\ client.klass.handle_migrate_data
    /\ ~NeedsDataTransfer


(***************************************************************************)
(* Incoming messages                                                       *)
(***************************************************************************)

\* C24: when the handler of an incoming message destroys the channel-client
\* it runs for, or its channel, release_recv_buf is called with the
\* channel-client and its channel not freed and the reference count at
\* least 1; the count reaches zero, and the channel-client is freed, only
\* when the reference held across the handler and release_recv_buf is given
\* up, and the channel is freed no earlier than its channel-clients.
C24_HeldAcrossRelease ==
    (client.phase = "incoming" /\ client.op.name = "red_peer_handle_incoming") =>
        /\ client.op.at_release.refs >= 1
        /\ ~client.op.at_release.freed
        /\ ~client.op.at_release.channel_freed
        /\ client.op.handler \in {"red_channel_client_destroy", "red_channel_destroy"} =>
              /\ client.op.at_release.refs = 1
              /\ client.w.rcc[client.op.id].refs = 0
              /\ client.w.rcc[client.op.id].freed
        /\ \A id \in DOMAIN client.w.rcc :
              client.w.rcc[id].channel \in client.w.freed => client.w.rcc[id].freed

\* the handler has destroyed the channel of its channel-client, which had
\* an item in its pipe, and both are freed after release_recv_buf
C24_Witness ==
    /\ client.phase = "incoming"
    /\ client.op.name = "red_peer_handle_incoming"
    /\ client.op.handler = "red_channel_destroy"
    /\ client.op.at_release.refs = 1
    /\ client.w.rcc[client.op.id].freed
    /\ client.w.rcc[client.op.id].channel \in client.w.freed
    /\ Len(client.w.rcc) = 2


(***************************************************************************)
(* Inbound data frames                                                     *)
(***************************************************************************)

\* the payload of the frame b, unmasked as RFC 6455 defines it when the
\* frame is masked
PayloadOf(b) ==
    LET h == HeaderLen(b)
    IN  [i \in 1 .. (Len(b) - h) |->
           IF b[2] >= 128 THEN BitXor(b[h + i], b[h - 4 + ((i - 1) % 4) + 1]) ELSE b[h + i]]

\* the payloads of the frames sent, in order
RECURSIVE AllPayload(_)
AllPayload(sent) ==
    IF sent = <<>> THEN <<>> ELSE PayloadOf(Frames[Head(sent)]) \o AllPayload(Tail(sent))

\* C25: once exactly expected_len payload bytes of an inbound binary frame,
\* masked or unmasked, have been delivered the frame is cleared: when the
\* payload of every frame sent has been delivered no frame is left ready,
\* and what is delivered is never anything but the payloads of the frames,
\* in order.
C25_FrameClearedAtEnd ==
    /\ IsPrefix(io.delivered, AllPayload(io.sent))
    /\ io.rawIn = <<>> /\ io.delivered = AllPayload(io.sent) => ~ws.read_frame.frame_ready

\* every frame sent is a continuation frame without FIN
OnlyContinuations ==
    \A k \in DOMAIN io.sent : Frames[io.sent[k]][1] = CONTINUATION_FRAME

\* C29: an inbound continuation frame without FIN is taken for a binary
\* frame: its payload is delivered as data by the call that reads it,
\* nothing else is waited for, and the connection is not failed.
C29_ContinuationDelivered ==
    io.sent # <<>> /\ OnlyContinuations =>
        /\ ~ws.closed
        /\ last.errno # EIO
        /\ IsPrefix(io.delivered, AllPayload(io.sent))
        /\ last.op = "read" /\ last.rc > 0 =>
              SubSeq(io.delivered, Len(io.delivered) - last.rc + 1, Len(io.delivered))
                  = SubSeq(AllPayload(io.sent), Len(io.delivered) - last.rc + 1,
                           Len(io.delivered))


\* C30: websocket_read returns the number of payload bytes it delivered into
\* the buffer during the call: a call that delivered n > 0 bytes returns n,
\* whatever ended it.
C30_ReturnsDelivered ==
    [][last'.op = "read" /\ Len(io'.delivered) > Len(io.delivered) =>
          last'.rc = Len(io'.delivered) - Len(io.delivered)]_vars


(***************************************************************************)
(* Headers sent in part                                                    *)
(***************************************************************************)

\* the step is websocket_write(buf, 3) on a fresh connection
FreshWrite3 ==
    /\ ws = NewWs
    /\ io.out = <<>>
    /\ last'.op = "write"
    /\ ws'.write_header[2] = 3

\* the connection owes the peer the second byte of the header 82 03
OwesSecondByte ==
    /\ io.out = Hdr(<<130>>)
    /\ ws.write_header[2] = 3
    /\ ws.write_header_pos = 1
    /\ ws.write_header_len = 2
    /\ ws.write_remainder = 0

\* a write call that emits anything starts with the header byte 03
ResumesHeader ==
    last'.op \in {"write", "writev"} =>
        io'.out = io.out \/ IsPrefix(io.out \o Hdr(<<3>>), io'.out)

\* C26, as claimed: websocket_write("ABC", 3) on a fresh connection whose
\* raw write returns 2 leaves write_header_pos = 2, write_header_len the
\* full header length and write_remainder = 0, and the next write call
\* resumes the header before any body byte.
C26_PartialHeaderOfTwo ==
    [][/\ FreshWrite3 /\ IsPrefix(Hdr(<<130, 3>>), io'.out) =>
             /\ ws'.write_header_pos = 2
             /\ ws'.write_header_len = 2
             /\ ws'.write_remainder = 0
       /\ OwesSecondByte => ResumesHeader]_vars

\* C26, amended: websocket_write("ABC", 3) on a fresh connection whose raw
\* write returns 1 leaves write_header_pos = 1, write_header_len = 2, the
\* full header length, and write_remainder = 0, and the next write call
\* resumes the header before any body byte.
C26_PartialHeaderOfOne ==
    [][/\ FreshWrite3 /\ io'.out = Hdr(<<130>>) =>
             /\ ws'.write_header_pos = 1
             /\ ws'.write_header_len = 2
             /\ ws'.write_remainder = 0
       /\ OwesSecondByte => ResumesHeader]_vars

\* websocket_write(buf, 3) has failed with EAGAIN after the raw write took
\* the first of the two header bytes
C26_Witness ==
    /\ OwesSecondByte
    /\ last.op = "write"
    /\ last.rc = -1
    /\ last.errno = EAGAIN


\* a write call starts a new frame: nothing of an earlier frame is owed
StartsFrame ==
    /\ last'.op \in {"write", "writev"}
    /\ NoPending(ws)
    /\ ~ws.closed
    /\ ~ws.close_pending

\* the step has put just the first k bytes of the new header on the wire
AcceptsOfHeader(k) ==
    /\ 0 < k
    /\ k < ws'.write_header_len
    /\ io'.out = io.out \o Hdr(SubSeq(ws'.write_header, 1, k))

\* the wire ends with the first k bytes of a header that is not complete
EndsInHeader(k) ==
    /\ 0 < k
    /\ k < ws.write_header_len
    /\ k <= Len(io.out)
    /\ ws.write_remainder = 0
    /\ ws.write_header_pos < ws.write_header_len
    /\ SubSeq(io.out, Len(io.out) - k + 1, Len(io.out)) =
           Hdr(SubSeq(ws.write_header, 1, k))

\* what the step emits is a prefix of the header bytes k+1..h, or all of
\* them and then the body
SendsRestOfHeader(k) ==
    LET rest == Hdr(SubSeq(ws.write_header, k + 1, ws.write_header_len))
        sent == SubSeq(io'.out, Len(io.out) + 1, Len(io'.out))
    IN  /\ IsPrefix(io.out, io'.out)
        /\ IsPrefix(sent, rest) \/ IsPrefix(rest, sent)

\* C27: when websocket_write or websocket_writev starts a new frame and the
\* raw stream accepts only k bytes of the h-byte header (0 < k < h), the
\* call fails with EAGAIN, write_header_pos = k, write_remainder stays 0,
\* and the next write call sends the header bytes k..h-1, each once and in
\* order, before any body byte.
C27_HeaderResidue ==
    [][\A k \in 1 .. 13 :
          /\ StartsFrame /\ AcceptsOfHeader(k) =>
                /\ last'.rc = -1
                /\ last'.errno = EAGAIN
                /\ ws'.write_header_pos = k
                /\ ws'.write_remainder = 0
          /\ last'.op \in {"write", "writev"} /\ EndsInHeader(k) =>
                SendsRestOfHeader(k)]_vars

\* C27 for a call of websocket_write alone
HeaderResidueOfWrite ==
    [][\A k \in 1 .. 13 :
          /\ last'.op = "write" /\ StartsFrame /\ AcceptsOfHeader(k) =>
                /\ last'.rc = -1
                /\ last'.errno = EAGAIN
                /\ ws'.write_header_pos = k
                /\ ws'.write_remainder = 0
          /\ (/\ last'.op \in {"write", "writev"}
              /\ EndsInHeader(k)
              /\ ws.write_header_pos = k) =>
                SendsRestOfHeader(k)]_vars


(***************************************************************************)
(* The close acknowledgement among data frames                             *)
(***************************************************************************)

\* the first byte the step puts on the wire is the header byte 88
AckEmitted ==
    /\ Len(io'.out) > Len(io.out)
    /\ IsPrefix(io.out, io'.out)
    /\ io'.out[Len(io.out) + 1] = [t |-> "h", v |-> 136]

\* the call attempts the acknowledgement with close_pending set and nothing
\* of a data frame owed
AckDue ==
    /\ NoPending(ws)
    /\ ~ws.closed
    /\ \/ last'.op \in {"write", "writev"} /\ ws.close_pending
       \/ last'.op = "read" /\ (ws'.close_pending \/ ws'.closed)

\* out is a concatenation of whole data frames: frames can follow it
EndsAtBoundary(out) ==
    FramedFrom(out \o Hdr(<<130, 0, 130, 0, 130, 0, 130, 0, 130, 0>>), 1)

\* no byte of an acknowledgement is on the wire yet
NoAckIn(out) == \A i \in 1 .. Len(out) : out[i] # [t |-> "h", v |-> 136]

\* close_pending is cleared only by a step whose raw write took both bytes
\* of the acknowledgement, and a step that attempts the acknowledgement
\* closes the connection only then; the two change together
ClosedByFullAck ==
    /\ ws.close_pending /\ ~ws'.close_pending =>
          IsPrefix(io.out \o AckBytes, io'.out) /\ ws'.closed
    /\ AckEmitted /\ ws'.closed =>
          IsPrefix(io.out \o AckBytes, io'.out) /\ ~ws'.close_pending
    /\ AckEmitted /\ ~IsPrefix(io.out \o AckBytes, io'.out) =>
          ws'.close_pending /\ ~ws'.closed

\* the acknowledgement is attempted only when close_pending is set and
\* nothing of a data frame is owed
AckOnlyWhenIdle ==
    [][(AckEmitted => AckDue) /\ ClosedByFullAck]_vars

\* C28: the close ack (88 00) is attempted only when close_pending is set
\* and neither a partly sent data-frame header nor an unsent body remainder
\* is outstanding, so it never lands inside a data frame; close_pending is
\* cleared and closed is set only when the raw write accepted both ack
\* bytes.
C28_AckBetweenFrames ==
    [][/\ AckEmitted => AckDue
       /\ AckEmitted /\ NoAckIn(io.out) => EndsAtBoundary(io.out)
       /\ ClosedByFullAck]_vars

(***************************************************************************)
(* Removing a channel-client from its channel                              *)
(***************************************************************************)

\* list without its item at position i
Without(list, i) == SubSeq(list, 1, i - 1) \o SubSeq(list, i + 1, Len(list))

\* the positions of id in list
PositionsOf(list, id) == {i \in 1 .. Len(list) : list[i] = id}

\* C31: red_channel_remove_client(C, cc) removes cc from C's clients list
\* when cc.channel = C and cc is in the list, on any calling thread (a thread
\* other than C's only gets a warning); when cc.channel # C or cc is not in
\* the list, the clients lists are left unchanged.
C31_RemoveClient ==
    [][client'.op.name = "red_channel_remove_client" =>
          LET ch == client'.op.ch
              id == client'.op.rcc
              before == client.w.clients
              after == client'.w.clients
              at == PositionsOf(before[ch], id)
          IN  /\ client'.op.warned <=> client'.op.self # thread_id[ch]
              /\ \A other \in Channels \ {ch} : after[other] = before[other]
              /\ IF client.w.rcc[id].channel = ch /\ at # {}
                 THEN \E i \in at : after[ch] = Without(before[ch], i)
                 ELSE after[ch] = before[ch]]_vars

\* a thread other than the channel's has removed a listed channel-client,
\* with a warning
C31_Witness ==
    /\ client.op.name = "red_channel_remove_client"
    /\ client.op.warned
    /\ client.op.self # thread_id[client.op.ch]
    /\ client.w.rcc[client.op.rcc].channel = client.op.ch
    /\ client.w.rcc[client.op.rcc].connected
    /\ PositionsOf(client.w.clients[client.op.ch], client.op.rcc) = {}

(***************************************************************************)
(* Items made by a creator                                                 *)
(***************************************************************************)

\* the number of items made by a creator among the items
RECURSIVE CountNew(_)
CountNew(items) ==
    IF items = <<>> THEN 0
    ELSE (IF Head(items) = NewItem THEN 1 ELSE 0) + CountNew(Tail(items))

\* the creator was called once per channel-client of the list, in list
\* order, with the indices 0, 1, 2, ...
CalledInOrder ==
    LET list == client.w.clients[client'.op.ch]
    IN  client'.op.calls = <<>> \o [i \in 1 .. Len(list) |-> <<list[i], i - 1>>]

\* the positions of the list for which the creator returned an item
NonNull ==
    {i \in 1 .. Len(client.w.clients[client'.op.ch]) : (i - 1) \in client'.op.data}

\* one item more for the channel-clients the creator returned an item for,
\* and nothing else changed in what any channel-client holds
EnqueuedWhereMade ==
    LET list == client.w.clients[client'.op.ch]
    IN  \A id \in DOMAIN client.w.rcc :
            LET had == client.w.rcc[id].sending \o client.w.rcc[id].pipe
                has == Items(client'.w.rcc[id])
            IN  /\ Len(has) = Len(had) + CountNew(has) - CountNew(had)
                /\ CountNew(has) - CountNew(had) =
                      Cardinality({i \in NonNull : list[i] = id})

\* after red_channel_pipes_new_add_push no channel-client of the list is
\* left with an item in its pipe and a stream that would take it
PushedAfterAll ==
    client'.op.name = "red_channel_pipes_new_add_push" =>
        \A i \in DOMAIN client.w.clients[client'.op.ch] :
            LET r == client'.w.rcc[client.w.clients[client'.op.ch][i]]
            IN  r.pipe = <<>> \/ r.blocked

\* C32, as claimed: red_channel_pipes_new_add, _add_tail and _add_push call
\* the creator once per channel-client of the list with indices 0, 1, 2, ...
\* in list order, enqueue an item on exactly the channel-clients the creator
\* returned one for, and each returns the count of these items; _add_push
\* pushes only after all items are enqueued.
C32_AllReturnCount ==
    [][client'.op.name \in BatchCalls =>
          /\ CalledInOrder
          /\ EnqueuedWhereMade
          /\ client'.op.ret = <<Cardinality(NonNull)>>
          /\ PushedAfterAll]_vars

\* C32, amended: red_channel_pipes_new_add, _add_tail and _add_push call the
\* creator once per channel-client of the list with indices 0, 1, 2, ... in
\* list order and enqueue an item on exactly the channel-clients the creator
\* returned one for; _add_push returns the count of these items and
\* red_channel_pipes_new_add and _add_tail return nothing; _add_push pushes
\* only after all items are enqueued.
C32_PushReturnsCount ==
    [][client'.op.name \in BatchCalls =>
          /\ CalledInOrder
          /\ EnqueuedWhereMade
          /\ client'.op.ret =
                (IF client'.op.name = "red_channel_pipes_new_add_push"
                 THEN <<Cardinality(NonNull)>> ELSE <<>>)
          /\ PushedAfterAll]_vars

\* red_channel_pipes_new_add_push on two channel-clients with a creator that
\* made an item for the second only has returned 1
C32_Witness ==
    /\ client.phase = "batch"
    /\ client.op.name = "red_channel_pipes_new_add_push"
    /\ client.op.data = {1}
    /\ client.op.ret = <<1>>
    /\ Len(client.op.calls) = 2
    /\ Len(client.w.clients[client.op.ch]) = 2
    /\ CountNew(Items(client.w.rcc[client.w.clients[client.op.ch][2]])) >= 1
    /\ CountNew(Items(client.w.rcc[client.w.clients[client.op.ch][1]])) = 0

(***************************************************************************)
(* Nothing after the close acknowledgement                                 *)
(***************************************************************************)

\* C33: the close ack is the last thing on the wire: once a byte of it has
\* been written no data-frame header or body byte follows, in the same call
\* or a later one, and the two ack bytes are emitted at most once, also when
\* the raw write of the ack is short.
C33_AckIsLast ==
    \A i \in 1 .. Len(io.out) :
        io.out[i] = [t |-> "h", v |-> 136] =>
            IsPrefix(SubSeq(io.out, i, Len(io.out)), AckBytes)

\* C33 for the calls that find the connection closed
NothingAfterClosed ==
    [][ws.closed => io'.out = io.out]_vars

(***************************************************************************)
(* Frames the reader discards                                              *)
(***************************************************************************)

\* the number of bytes of the frames sent
RECURSIVE SentBytes(_)
SentBytes(sent) ==
    IF sent = <<>> THEN 0 ELSE Len(Frames[Head(sent)]) + SentBytes(Tail(sent))

\* the offsets in the stream at which the frames sent start
FrameStarts(sent) == {SentBytes(SubSeq(sent, 1, k)) : k \in 0 .. Len(sent)}

\* the raw bytes the reader has taken
Consumed == SentBytes(io.sent) - Len(io.rawIn)

\* the payloads of the binary frames among the frames sent, in order
RECURSIVE BinaryPayload(_)
BinaryPayload(sent) ==
    IF sent = <<>> THEN <<>>
    ELSE (IF Frames[Head(sent)][1] % 16 = BINARY_FRAME
          THEN PayloadOf(Frames[Head(sent)]) ELSE <<>>)
         \o BinaryPayload(Tail(sent))

\* C34: a discarded frame of a valid opcode that is not handled (text, ping,
\* pong, final continuation) is skipped with its payload: a header being
\* filled starts where a frame sent starts, never in a payload, so nothing
\* but the payloads of the binary frames is delivered and no header is found
\* malformed.
C34_DiscardSkipsPayload ==
    /\ ~ws.read_frame.frame_ready /\ ws.read_frame.header_pos > 0 =>
          (Consumed - ws.read_frame.header_pos) \in FrameStarts(io.sent)
    /\ IsPrefix(io.delivered, BinaryPayload(io.sent))
    /\ last.errno # EIO

\* every discarded frame sent has an empty payload
NoDiscardedPayload ==
    \A k \in DOMAIN io.sent : io.sent[k] \in {"pong0", "hello"}

\* C34 for discarded frames without a payload
DiscardOfEmptyFrames ==
    NoDiscardedPayload => C34_DiscardSkipsPayload

\* every frame sent is a binary frame, and one of them has no payload
BinaryWithEmpty ==
    /\ \A k \in DOMAIN io.sent : io.sent[k] \in {"empty", "hello"}
    /\ \E k \in DOMAIN io.sent : io.sent[k] = "empty"

\* C35: an inbound binary frame with payload length 0 delivers no bytes and
\* leaves the connection open: the closed flag is not set and the reader
\* goes on with the next frame header.
C35_EmptyBinaryFrame ==
    BinaryWithEmpty =>
        /\ ~ws.closed
        /\ IsPrefix(io.delivered, BinaryPayload(io.sent))
        /\ io.rawIn = <<>> /\ ws.read_frame.header_pos = 0 =>
              io.delivered = BinaryPayload(io.sent)

(***************************************************************************)
(* The end of a seamless migration                                         *)
(***************************************************************************)

\* SEAMLESS_TARGET: both flags set
SeamlessTarget == client.c.during_target_migrate /\ client.c.seamless_migrate

\* NONE after a seamless migration: both flags clear, supervisor notified
ReturnedToNone ==
    /\ ~client.c.during_target_migrate
    /\ ~client.c.seamless_migrate
    /\ client.c.notified >= 1

\* every channel-client of the list that accepted the seamless mode has
\* called red_client_seamless_migration_done_for_channel
AllReported ==
    \A i \in DOMAIN client.track :
        client.track[i].counted => client.track[i].reported

\* C36: a client that has entered SEAMLESS_TARGET returns to NONE in the end
\* once every channel-client of its channels list that accepted the seamless
\* mode has called red_client_seamless_migration_done_for_channel, also when
\* none accepted it and when a counted channel-client was removed before it
\* called.
C36_ReturnsToNone == (SeamlessTarget /\ AllReported) ~> ReturnedToNone

\* C36 without its two special cases: a client is left in SEAMLESS_TARGET
\* with every listed channel-client done only if none was counted or a
\* counted one was removed before it called
StuckOnlyWhenUncounted ==
    SeamlessTarget /\ AllReported => client.counted = 0 \/ client.lost > 0

(***************************************************************************)
(* The header cursor                                                       *)
(***************************************************************************)

\* the header cursor is within the buffer and, once the first two bytes are
\* there, within the header they announce
HeaderWithinBounds ==
    /\ ws.read_frame.header_pos >= 0
    /\ ws.read_frame.header_pos <= WEBSOCKET_MAX_HEADER_SIZE
    /\ ws.read_frame.header_pos >= 2 =>
          ws.read_frame.header_pos <= HeaderLen(ws.read_frame.header)

\* the bytes in the header buffer are the first bytes of a frame sent
HeaderFromFrameStart ==
    ws.read_frame.header_pos > 0 =>
        \E k \in DOMAIN io.sent :
            IsPrefix(SubSeq(ws.read_frame.header, 1, ws.read_frame.header_pos),
                     Frames[io.sent[k]])

\* C37: while a header is filled websocket_read never asks for more raw
\* bytes than the header still needs, so 0 <= header_pos <= 14 always and
\* no payload byte is ever consumed into the header buffer.
C37_HeaderCursor ==
    /\ HeaderWithinBounds
    /\ HeaderFromFrameStart

====
